---- MODULE Spec2Model ----
(***************************************************************************)
(* negentropy: a bounded LRU cache (Lru) layered over a storage backend    *)
(* (Memory or S3), with the default method put_object_if_not_exists.       *)
(*                                                                         *)
(* Names are sequences of one-character strings, payloads are sequences of *)
(* byte values, typed values are records.  The backend is the map `data`   *)
(* from stored names to payloads; the Lru is the pair (exists, cache)      *)
(* where cache is a sequence of entries, most recently used first.         *)
(***************************************************************************)
EXTENDS Integers, Sequences, FiniteSets, TLC

\* ------------------------------------------------------------------ bounds
MaxCap == 2
MaxVal == 1
MaxRoundTrip == 300

\* ------------------------------------------------------------------ names
\* The names of the test keys (storage/sink/memory.rs, TestKey), shortened
\* to one character per segment: "o", "l/q", "l/v/b".
KeyOne == <<"o">>
KeyLong == <<"l", "/", "q">>
KeyVeryLong == <<"l", "/", "v", "/", "b">>
Keys == {KeyOne, KeyLong, KeyVeryLong}

Prefixes == {<<>>, <<"l">>, <<"l", "/">>}

\* ------------------------------------------------------------------ values
\* A typed value (RETURN = an unsigned integer type), the None of
\* Option<RETURN>, and a value serde cannot serialize.
IntV(n) == [t |-> "int", n |-> n]
None == [t |-> "none"]
Unserializable == [t |-> "bad"]
IntValues == {IntV(n) : n \in 1..MaxVal}
Values == IntValues \cup {Unserializable}
Some(v) == v

Ok(x) == [ok |-> TRUE, val |-> x]
Err(e) == [ok |-> FALSE, val |-> e]
Unit == "unit"

\* ------------------------------------------------------------------ errors
\* The error enums of storage.rs as records; `kind` is the variant.  The
\* messages of serde_json and of the SDK are the two strings below.
SerdeMessage == "serde_json::Error"
SdkErrorMessage == "SdkError"

ParserError_Serde(internal) == [kind |-> "ParserError::Serde", internal |-> internal]
MemoryError_Serde(parser_error) == [kind |-> "MemoryError::Serde", source |-> parser_error]
S3Error_Serde(parser_error) == [kind |-> "S3Error::Serde", source |-> parser_error]
S3Error_S3Object(operation, key, internal) ==
    [kind |-> "S3Error::S3Object", operation |-> operation, key |-> key, internal |-> internal]
S3Error_S3Exists(operation, key, internal) ==
    [kind |-> "S3Error::S3Exists", operation |-> operation, key |-> key, internal |-> internal]
S3Error_S3List(operation, prefix, internal) ==
    [kind |-> "S3Error::S3List", operation |-> operation, prefix |-> prefix,
     internal |-> internal]
S3Error_S3ListHandle == [kind |-> "S3Error::S3ListHandle"]
S3Error_EnvConfig(message) == [kind |-> "S3Error::EnvConfig", message |-> message]

\* impl From<MemoryError>, From<S3Error>, From<ParserError> for LruError
LruError(error) ==
    [kind |-> IF error.kind = "ParserError::Serde" THEN "LruError::Parser"
              ELSE IF error.kind = "MemoryError::Serde" THEN "LruError::Memory"
              ELSE "LruError::S3",
     source |-> error]

\* ------------------------------------------------------------------ parser
Digit(d) == 48 + d
IsDigit(b) == b \in 48..57
NullBytes == <<110, 117, 108, 108>>

\* Mutant: the least significant digit is written first.
RECURSIVE Digits_LeastFirst(_)
Digits_LeastFirst(n) ==
    IF n < 10 THEN <<Digit(n)>> ELSE <<Digit(n % 10)>> \o Digits_LeastFirst(n \div 10)

RECURSIVE Digits(_)
Digits(n) == IF n < 10 THEN <<Digit(n)>> ELSE Append(Digits(n \div 10), Digit(n % 10))

RECURSIVE Number(_)
Number(bytes) ==
    IF Len(bytes) = 0 THEN 0
    ELSE 10 * Number(SubSeq(bytes, 1, Len(bytes) - 1)) + (bytes[Len(bytes)] - 48)

\* Json::serialize_value: serde_json::to_vec
serialize_value(v) ==
    CASE v.t = "int" -> Ok(Digits(v.n))
      [] v.t = "none" -> Ok(NullBytes)
      [] OTHER -> Err(ParserError_Serde(SerdeMessage))

\* Json::deserialize_value::<RETURN>: serde_json::from_slice, RETURN an
\* unsigned integer: the empty payload, "null" and a number with a leading
\* zero are errors.
deserialize_value(bytes) ==
    IF /\ Len(bytes) > 0
       /\ \A i \in 1..Len(bytes) : IsDigit(bytes[i])
       /\ (Len(bytes) > 1 => bytes[1] # 48)
    THEN Ok(IntV(Number(bytes)))
    ELSE Err(ParserError_Serde(SerdeMessage))

\* Rkyv::serialize_value for a 32-bit unsigned value, whose archived form is
\* the value itself: its four bytes, least significant first.
Rkyv_serialize_value(v) ==
    IF v.t = "int"
    THEN Ok(<<v.n % 256, (v.n \div 256) % 256, (v.n \div 65536) % 256,
              (v.n \div 16777216) % 256>>)
    ELSE Err(ParserError_Serde("rkyv"))

\* Rkyv::deserialize_value: check_archived_root takes the root from the end
\* of the content, which must be long enough to hold it.
Rkyv_deserialize_value(content) ==
    LET root == Len(content) - 4
    IN  IF root < 0 THEN Err(ParserError_Serde("rkyv"))
        ELSE Ok(IntV(content[root + 1] + 256 * content[root + 2] + 65536 * content[root + 3]
                     + 16777216 * content[root + 4]))

\* Payloads a caller hands to put_bytes: the empty payload and a JSON number.
BytesInputs == {<<>>, Digits(MaxVal)}

\* ------------------------------------------------------------------ listing
starts_with(key, prefix) ==
    /\ Len(prefix) <= Len(key)
    /\ SubSeq(key, 1, Len(prefix)) = prefix

\* Mutant: the split is made at the last delimiter (str::rsplit_once).
LastDelimiter(radical) ==
    IF \E i \in 1..Len(radical) : radical[i] = "/"
    THEN CHOOSE i \in 1..Len(radical) :
            /\ radical[i] = "/"
            /\ \A j \in (i + 1)..Len(radical) : radical[j] # "/"
    ELSE 0

\* str::split_once('/'): the index of the first delimiter, 0 when there is none.
FirstDelimiter(radical) ==
    IF \E i \in 1..Len(radical) : radical[i] = "/"
    THEN CHOOSE i \in 1..Len(radical) :
            /\ radical[i] = "/"
            /\ \A j \in 1..(i - 1) : radical[j] # "/"
    ELSE 0

\* Mutant: no rollup, every matching name is listed in full.
radix_key_NoRollup(prefix, key) == {key}

\* radix_key: Option<String> as a set of at most one name.
radix_key(prefix, key) ==
    LET radical == SubSeq(key, Len(prefix) + 1, Len(key))
        at == FirstDelimiter(radical)
        radical_without_suffix == SubSeq(radical, 1, at - 1)
    IN  IF at = 0 THEN {key}
        ELSE IF Len(radical_without_suffix) = 0 THEN {}
        ELSE {prefix \o radical_without_suffix \o <<"/">>}

\* ------------------------------------------------------------------ Memory
Put(d, key, value) ==
    [x \in DOMAIN d \cup {key} |-> IF x = key THEN value ELSE d[x]]

Memory_exists_inner(d, key) == key \in DOMAIN d

\* Mutant: the first payload of a name is kept (entry().or_insert()).
Memory_put_bytes_inner_KeepFirst(d, key, value) ==
    IF key \in DOMAIN d THEN d ELSE Put(d, key, value)

Memory_put_bytes_inner(d, key, value) == Put(d, key, value)

Memory_list_objects_inner(d, prefix) ==
    UNION {radix_key(prefix, key) : key \in {x \in DOMAIN d : starts_with(x, prefix)}}

\* storage/memory.rs, Memory::list_objects (the Storage implementation)
Memory_list_objects(d, prefix) ==
    LET entry(key) ==
            LET radical == SubSeq(key, Len(prefix) + 1, Len(key))
                at == FirstDelimiter(radical)
                radical_without_suffix == SubSeq(radical, 1, at - 1)
            IN  IF at = 0 THEN {key}
                ELSE IF Len(prefix) = 0 THEN {radical_without_suffix \o <<"/">>}
                ELSE IF Len(radical_without_suffix) = 0 THEN {}
                ELSE {prefix \o radical_without_suffix \o <<"/">>}
    IN  UNION {entry(key) : key \in {x \in DOMAIN d : starts_with(x, prefix)}}

Memory_put_object_inner(d, key, value) ==
    LET serialize == serialize_value(value)
    IN  IF serialize.ok
        THEN [data |-> Memory_put_bytes_inner(d, key, serialize.val), res |-> Ok(Unit)]
        ELSE [data |-> d, res |-> Err(MemoryError_Serde(ParserError_Serde(SerdeMessage)))]

\* Mutant: an absent name is an error (MemoryError::NotExistsObject of the
\* Storage implementation) instead of None.
Memory_get_object_inner_NotExists(d, key) ==
    IF key \notin DOMAIN d THEN Err([kind |-> "MemoryError::NotExistsObject", key |-> key])
    ELSE LET content == deserialize_value(d[key])
         IN  IF content.ok THEN Ok(Some(content.val)) ELSE Err(MemoryError_Serde(content.val))

\* Mutant: an empty payload is reported as absent, as the remote backend does.
Memory_get_object_inner_EmptyIsNone(d, key) ==
    IF key \notin DOMAIN d \/ d[key] = <<>> THEN Ok(None)
    ELSE LET content == deserialize_value(d[key])
         IN  IF content.ok THEN Ok(Some(content.val)) ELSE Err(MemoryError_Serde(content.val))

Memory_get_object_inner(d, key) ==
    IF key \notin DOMAIN d THEN Ok(None)
    ELSE LET content == deserialize_value(d[key])
         IN  IF content.ok THEN Ok(Some(content.val)) ELSE Err(MemoryError_Serde(content.val))

\* impl SinkCopy for Memory
Memory_exists_copy(d, key) == Ok(Memory_exists_inner(d, key))

Memory_put_object_copy(d, key, value) == Memory_put_object_inner(d, key, value)

Memory_put_bytes_copy(d, key, value) ==
    [data |-> Memory_put_bytes_inner(d, key, value), res |-> Ok(Unit)]

Memory_get_object_copy(d, key) == Memory_get_object_inner(d, key)

Memory_list_objects_copy(d, prefix) == Ok(Memory_list_objects_inner(d, prefix))

\* Memory::get_bytes and Memory::len
Memory_get_bytes(d, key) == IF key \in DOMAIN d THEN {d[key]} ELSE {}

Memory_len(d) == Cardinality(DOMAIN d)

\* ------------------------------------------------------------------ S3
\* `t` is the outcome of the request: TRUE when the store answered, FALSE for
\* any other SdkError.  A failed put leaves the bucket as it was.
\* The answer to head_object().key(key).send(): the object's metadata, the
\* service error NotFound, or any other SdkError.
HeadObject(d, key, t) ==
    IF ~t THEN "SdkError" ELSE IF key \in DOMAIN d THEN "HeadObjectOutput" ELSE "NotFound"

\* Mutant: the NotFound answer is reported as an error like any other.
S3_exists_inner_NotFoundIsError(d, key, t) ==
    IF HeadObject(d, key, t) = "HeadObjectOutput" THEN Ok(TRUE)
    ELSE Err(S3Error_S3Exists("exists", key, SdkErrorMessage))

S3_exists_inner(d, key, t) ==
    LET head_object == HeadObject(d, key, t)
    IN  CASE head_object = "HeadObjectOutput" -> Ok(TRUE)
          [] head_object = "NotFound" -> Ok(FALSE)
          [] OTHER -> Err(S3Error_S3Exists("exists", key, SdkErrorMessage))

\* Mutant: a create-only put, refused when the name is already held.
S3_put_bytes_inner_CreateOnly(d, key, value, t) ==
    IF t /\ key \notin DOMAIN d THEN [data |-> Put(d, key, value), res |-> Ok(Unit)]
    ELSE [data |-> d, res |-> Err(S3Error_S3Object("put_bytes", key, SdkErrorMessage))]

S3_put_bytes_inner(d, key, value, t) ==
    IF t THEN [data |-> Put(d, key, value), res |-> Ok(Unit)]
    ELSE [data |-> d, res |-> Err(S3Error_S3Object("put_bytes", key, SdkErrorMessage))]

S3_put_object_inner(d, key, value, t) ==
    LET serialize == serialize_value(value)
    IN  IF serialize.ok THEN S3_put_bytes_inner(d, key, serialize.val, t)
        ELSE [data |-> d, res |-> Err(S3Error_S3Object("put_object", key, SerdeMessage))]

\* GetObjectOutput: the content length and the body stream, whose
\* collection gives the payload or fails.
GetObjectOutput(content) == [content_length |-> Len(content), body |-> Ok(content)]
BrokenBody(content) == [content_length |-> Len(content), body |-> Err(SdkErrorMessage)]

parse_aggregated_bytes(content) ==
    LET object == deserialize_value(content)
    IN  IF object.ok THEN Ok(object.val) ELSE Err(S3Error_Serde(object.val))

\* Mutant: a body that cannot be read or parsed is reported as absent.
parse_s3_object_Lenient(object, key) ==
    IF object.content_length = 0 \/ ~object.body.ok THEN Ok(None)
    ELSE IF parse_aggregated_bytes(object.body.val).ok
    THEN Ok(Some(parse_aggregated_bytes(object.body.val).val))
    ELSE Ok(None)

parse_s3_object(object, key) ==
    IF object.content_length = 0 THEN Ok(None)
    ELSE IF ~object.body.ok
    THEN Err(S3Error_S3Object("parse_s3_object", key, object.body.val))
    ELSE LET parsed == parse_aggregated_bytes(object.body.val)
         IN  IF parsed.ok THEN Ok(Some(parsed.val)) ELSE parsed

\* The answer to get_object().key(key).send(): the object, the service
\* error NoSuchKey, or any other SdkError.
GetObject_send(d, key, t) ==
    IF ~t THEN "SdkError" ELSE IF key \in DOMAIN d THEN "GetObjectOutput" ELSE "NoSuchKey"

S3_get_object_inner(d, key, t) ==
    LET object == GetObject_send(d, key, t)
    IN  CASE object = "GetObjectOutput" -> parse_s3_object(GetObjectOutput(d[key]), key)
          [] object = "NoSuchKey" -> Ok(None)
          [] OTHER -> Err(S3Error_S3Object("get_object", key, SdkErrorMessage))

\* The store's answer to list_objects_v2().prefix(prefix).delimiter("/"):
\* the keys with no delimiter after the prefix, and for the others the key up
\* to and including its first delimiter after the prefix.
ListObjectsV2(d, prefix) ==
    LET matching == {key \in DOMAIN d : starts_with(key, prefix)}
        cut(key) == Len(prefix) + FirstDelimiter(SubSeq(key, Len(prefix) + 1, Len(key)))
    IN  [contents |-> {key \in matching : cut(key) = Len(prefix)},
         common_prefixes |-> {SubSeq(key, 1, cut(key)) :
                                key \in {x \in matching : cut(x) > Len(prefix)}}]

\* handle_list_objects: only `contents` is read; the SDK leaves it None when
\* the answer has no Contents element.
handle_list_objects(list) ==
    IF list.contents = {} THEN Err(S3Error_S3ListHandle) ELSE Ok(list.contents)

S3_list_objects_inner(d, prefix, t) ==
    IF t THEN handle_list_objects(ListObjectsV2(d, prefix))
    ELSE Err(S3Error_S3List("list_objects", prefix, SdkErrorMessage))

\* The value of an environment variable: not set, set to bytes that are not
\* valid Unicode, or set to a string.
NotPresent == [present |-> FALSE]
NotUnicode == [present |-> TRUE, unicode |-> FALSE]
Value(v) == [present |-> TRUE, unicode |-> TRUE, value |-> v]

\* std::env::var as create_client uses it
env_var(env, name) ==
    IF ~env[name].present THEN Err("environment variable not found")
    ELSE IF ~env[name].unicode THEN Err("environment variable was not valid unicode")
    ELSE Ok(env[name].value)

\* Mutant: S3_REGION is required as S3_ENDPOINT is.
create_client_RegionRequired(env) ==
    LET endpoint == env_var(env, "S3_ENDPOINT")
        region == env_var(env, "S3_REGION")
    IN  IF ~endpoint.ok THEN Err(S3Error_EnvConfig(<<"S3_ENDPOINT", endpoint.val>>))
        ELSE IF ~region.ok THEN Err(S3Error_EnvConfig(<<"S3_REGION", region.val>>))
        ELSE Ok([endpoint_url |-> endpoint.val, region |-> region.val,
                 force_path_style |-> TRUE])

\* create_client
create_client(env) ==
    LET endpoint == env_var(env, "S3_ENDPOINT")
        region == env_var(env, "S3_REGION")
    IN  IF ~endpoint.ok THEN Err(S3Error_EnvConfig(<<"S3_ENDPOINT", endpoint.val>>))
        ELSE Ok([endpoint_url |-> endpoint.val,
                 region |-> IF region.ok THEN region.val ELSE "us-east-1",
                 force_path_style |-> TRUE])

\* S3::new
S3_new(bucket, env) ==
    LET inner == create_client(env)
    IN  IF ~inner.ok THEN inner ELSE Ok([inner |-> inner.val, bucket |-> bucket])

\* Memory::default
Memory_default == [data |-> <<>>]

\* ------------------------------------------------------------------ Sink
\* The methods of the Sink trait on the wrapped backend `sk`.
Sink_exists_copy(sk, d, key, t) ==
    IF sk = "memory" THEN Memory_exists_copy(d, key) ELSE S3_exists_inner(d, key, t)

Sink_put_bytes_copy(sk, d, key, value, t) ==
    IF sk = "memory" THEN Memory_put_bytes_copy(d, key, value)
    ELSE S3_put_bytes_inner(d, key, value, t)

Sink_put_object_copy(sk, d, key, value, t) ==
    IF sk = "memory" THEN Memory_put_object_copy(d, key, value)
    ELSE S3_put_object_inner(d, key, value, t)

Sink_get_object_copy(sk, d, key, t) ==
    IF sk = "memory" THEN Memory_get_object_copy(d, key) ELSE S3_get_object_inner(d, key, t)

Sink_list_objects_copy(sk, d, prefix, t) ==
    IF sk = "memory" THEN Memory_list_objects_copy(d, prefix)
    ELSE S3_list_objects_inner(d, prefix, t)

\* storage.rs, Sink::put_object_if_not_exists (default method), one caller:
\* `te` and `tw` are the outcomes of the exists request and of the write.
Sink_put_object_if_not_exists(sk, d, key, value, te, tw) ==
    LET found == Sink_exists_copy(sk, d, key, te)
        put == Sink_put_object_copy(sk, d, key, value, tw)
    IN  IF ~found.ok THEN [data |-> d, res |-> found]
        ELSE IF found.val THEN [data |-> d, res |-> Ok(FALSE)]
        ELSE IF ~put.res.ok THEN put
        ELSE [data |-> put.data, res |-> Ok(TRUE)]

\* storage/copy.rs, Sink::put_object_if_not_exists_copy (default method)
Sink_put_object_if_not_exists_copy(sk, d, key, value, te, tw) ==
    LET found == Sink_exists_copy(sk, d, key, te)
        put == Sink_put_object_copy(sk, d, key, value, tw)
    IN  IF ~found.ok THEN [data |-> d, res |-> found]
        ELSE IF found.val THEN [data |-> d, res |-> Ok(FALSE)]
        ELSE IF ~put.res.ok THEN put
        ELSE [data |-> put.data, res |-> Ok(TRUE)]

\* lib.rs, Storage::put_object_if_not_exists (default method) over the bucket
Storage_put_object_if_not_exists(d, key, value, te, tw) ==
    LET found == S3_exists_inner(d, key, te)
        put == S3_put_object_inner(d, key, value, tw)
    IN  IF ~found.ok THEN [data |-> d, res |-> found]
        ELSE IF found.val THEN [data |-> d, res |-> Ok(FALSE)]
        ELSE IF ~put.res.ok THEN put
        ELSE [data |-> put.data, res |-> Ok(TRUE)]

VARIABLES
    impl,     \* which impl of the cache trait is in use: "lru" | "copy"
    sink,     \* the wrapped backend: "memory" | "s3"
    cap,      \* Lru::new(size, ..)
    data,     \* backend: Memory.data / the bucket's objects
    exists,   \* Lru.exists
    cache,    \* Lru.cache, most recently used first
    written,  \* history: names a write was issued for, or held at construction
    call,     \* the concurrent callers: the position and the result of each
    lastWrite, \* history: per name, the caller whose write reached the backend last
    recency,  \* history: names put into or read from the cache, latest first
    listed,   \* the result of the last list_objects call on a backend
    instance, \* Instance::new: its position, environment and configuration
    peer      \* a second Lru on the same backend: its index and its cache
vars == <<impl, sink, cap, data, exists, cache, written, call, lastWrite, recency, listed,
          instance, peer>>

\* No second Lru shares the backend.
NoPeer == [exists |-> {}, cache |-> <<>>]

\* No Instance is being constructed.
NoInstance == [pc |-> "none"]

\* ------------------------------------------------------------------ LruCache
\* lru::LruCache<String, Vec<u8>>: a sequence of entries, most recent first.
Entry(key, value) == [key |-> key, value |-> value]
Resident(c) == {c[i].key : i \in 1..Len(c)}
IndexOf(c, key) == CHOOSE i \in 1..Len(c) : c[i].key = key
Payload(c, key) == c[IndexOf(c, key)].value
Without(c, key) == SelectSeq(c, LAMBDA e : e.key # key)

\* Mutant: a put that never drops the least recently used entry.
LruCache_put_NoEvict(c, size, key, value) ==
    <<Entry(key, value)>> \o Without(c, key)

\* LruCache::put: replace and promote a resident key, else insert at the
\* front after dropping the least recently used entry of a full cache.
LruCache_put(c, size, key, value) ==
    IF key \in Resident(c) THEN <<Entry(key, value)>> \o Without(c, key)
    ELSE IF Len(c) >= size THEN <<Entry(key, value)>> \o SubSeq(c, 1, Len(c) - 1)
    ELSE <<Entry(key, value)>> \o c

\* Mutant: a read that does not promote the key (LruCache::peek).
LruCache_get_Peek(c, key) == c

\* LruCache::get: promote a resident key.
LruCache_get(c, key) ==
    IF key \in Resident(c) THEN <<Entry(key, Payload(c, key))>> \o Without(c, key) ELSE c

\* ------------------------------------------------------------------ Lru
\* An Lru value is the record [exists, cache, data]: its existence index, its
\* bounded cache and the contents of its backend.  Operations return the new
\* Lru, the result and the backend calls made.
\* Mutant: existence answered from the bounded cache instead of the index.
Lru_exists_inner_Resident(L, key) == key \in Resident(L.cache)

Lru_exists_inner(L, key) == key \in L.exists

\* Mutant: the index forgets a name when its payload is evicted.
Lru_put_bytes_inner_Forget(L, key, value) ==
    [L EXCEPT !.cache = LruCache_put(L.cache, cap, key, value),
              !.exists = (L.exists \cap Resident(LruCache_put(L.cache, cap, key, value)))
                            \cup {key}]

\* Mutant: the payload is cached but the name is not marked in the index.
Lru_put_bytes_inner_CacheOnly(L, key, value) ==
    [L EXCEPT !.cache = LruCache_put(L.cache, cap, key, value)]

\* Mutant: the name is marked in the index but the payload is not cached.
Lru_put_bytes_inner_IndexOnly(L, key, value) ==
    [L EXCEPT !.exists = L.exists \cup {key}]

Lru_put_bytes_inner(L, key, value) ==
    [L EXCEPT !.cache = LruCache_put(L.cache, cap, key, value),
              !.exists = L.exists \cup {key}]

\* Mutant: a payload that is not in the cache is fetched from the backend.
Lru_get_bytes_inner_ReadThrough(L, key) ==
    IF key \in Resident(L.cache) \/ key \notin DOMAIN L.data
    THEN [L |-> [L EXCEPT !.cache = LruCache_get(L.cache, key)],
          res |-> IF key \in Resident(L.cache) THEN Ok(Some(Payload(L.cache, key)))
                  ELSE Ok(None),
          calls |-> <<>>]
    ELSE [L |-> L, res |-> Ok(Some(L.data[key])), calls |-> <<"get_bytes">>]

Lru_get_bytes_inner(L, key) ==
    [L |-> [L EXCEPT !.cache = LruCache_get(L.cache, key)],
     res |-> IF key \in Resident(L.cache) THEN Ok(Some(Payload(L.cache, key))) ELSE Ok(None),
     calls |-> <<>>]

Lru_list_objects_inner(L, prefix) ==
    UNION {radix_key(prefix, key) : key \in {x \in Resident(L.cache) : starts_with(x, prefix)}}

Lru_put_object_inner(L, key, value) ==
    LET serialize == serialize_value(value)
    IN  IF serialize.ok
        THEN [L |-> Lru_put_bytes_inner(L, key, serialize.val), res |-> Ok(serialize.val)]
        ELSE [L |-> L, res |-> Err(LruError(serialize.val))]

\* storage/cache/lru.rs, exists (`exists` names the index, hence Lru_exists)
Lru_exists(L, key) == [L |-> L, res |-> Ok(Lru_exists_inner(L, key)), calls |-> <<>>]

\* storage/copy/cache/lru.rs, exists_copy
exists_copy(L, key) == [L |-> L, res |-> Ok(Lru_exists_inner(L, key)), calls |-> <<>>]

\* storage/cache/lru.rs, list_objects: LruCache::iter leaves the order alone
list_objects(L, prefix) ==
    [L |-> L, res |-> Ok(Lru_list_objects_inner(L, prefix)), calls |-> <<>>]

\* storage/copy/cache/lru.rs, list_objects_copy
list_objects_copy(L, prefix) ==
    [L |-> L, res |-> Ok(Lru_list_objects_inner(L, prefix)), calls |-> <<>>]

\* storage/cache/lru.rs, put_object
put_object(L, key, value, tw) ==
    LET inner == Lru_put_object_inner(L, key, value)
        write == Sink_put_bytes_copy(sink, inner.L.data, key, inner.res.val, tw)
    IN  IF ~inner.res.ok THEN [L |-> L, res |-> inner.res, calls |-> <<>>]
        ELSE IF ~write.res.ok
        THEN [L |-> inner.L, res |-> Err(LruError(write.res.val)), calls |-> <<"put_bytes">>]
        ELSE [L |-> [inner.L EXCEPT !.data = write.data], res |-> Ok(Unit),
              calls |-> <<"put_bytes">>]

\* storage/cache/lru.rs, put_bytes
put_bytes(L, key, value, tw) ==
    LET inner == Lru_put_bytes_inner(L, key, value)
        write == Sink_put_bytes_copy(sink, inner.data, key, value, tw)
    IN  IF ~write.res.ok
        THEN [L |-> inner, res |-> Err(LruError(write.res.val)), calls |-> <<"put_bytes">>]
        ELSE [L |-> [inner EXCEPT !.data = write.data], res |-> Ok(Unit),
              calls |-> <<"put_bytes">>]

\* storage/cache/lru.rs, get_object
get_object(L, key, tr, tw) ==
    IF Lru_exists_inner(L, key)
    THEN LET hit == key \in Resident(L.cache)
             value == deserialize_value(Payload(L.cache, key))
             promoted == [L EXCEPT !.cache = LruCache_get(L.cache, key)]
         IN  IF ~hit THEN [L |-> L, res |-> Ok(None), calls |-> <<>>]
             ELSE IF value.ok THEN [L |-> promoted, res |-> Ok(Some(value.val)), calls |-> <<>>]
             ELSE [L |-> promoted, res |-> Err(LruError(value.val)), calls |-> <<>>]
    ELSE LET object == Sink_get_object_copy(sink, L.data, key, tr)
             put == put_object(L, key, object.val, tw)
         IN  IF ~object.ok
             THEN [L |-> L, res |-> Err(LruError(object.val)), calls |-> <<"get_object">>]
             ELSE IF ~put.res.ok
             THEN [L |-> put.L, res |-> put.res, calls |-> <<"get_object">> \o put.calls]
             ELSE [L |-> put.L, res |-> Ok(object.val), calls |-> <<"get_object">> \o put.calls]

\* storage/copy/cache/lru.rs, put_object_copy
put_object_copy(L, key, value, tw) ==
    LET inner == Lru_put_object_inner(L, key, value)
        write == Sink_put_bytes_copy(sink, inner.L.data, key, inner.res.val, tw)
    IN  IF ~inner.res.ok THEN [L |-> L, res |-> inner.res, calls |-> <<>>]
        ELSE IF ~write.res.ok
        THEN [L |-> inner.L, res |-> Err(LruError(write.res.val)), calls |-> <<"put_bytes">>]
        ELSE [L |-> [inner.L EXCEPT !.data = write.data], res |-> Ok(Unit),
              calls |-> <<"put_bytes">>]

\* storage/copy/cache/lru.rs, put_bytes_copy
put_bytes_copy(L, key, value, tw) ==
    LET inner == Lru_put_bytes_inner(L, key, value)
        write == Sink_put_bytes_copy(sink, inner.data, key, value, tw)
    IN  IF ~write.res.ok
        THEN [L |-> inner, res |-> Err(LruError(write.res.val)), calls |-> <<"put_bytes">>]
        ELSE [L |-> [inner EXCEPT !.data = write.data], res |-> Ok(Unit),
              calls |-> <<"put_bytes">>]

\* Lru::get_object_cache_inner: the cached payload of the key, deserialized.
get_object_cache_inner(L, key) ==
    LET hit == key \in Resident(L.cache)
        value == deserialize_value(Payload(L.cache, key))
    IN  [L |-> [L EXCEPT !.cache = LruCache_get(L.cache, key)],
         res |-> IF ~hit THEN Ok(None)
                 ELSE IF value.ok THEN Ok(Some(value.val)) ELSE Err(LruError(value.val))]

\* storage/copy/cache/lru.rs, get_object_copy
get_object_copy(L, key, tr, tw) ==
    LET from_cache == get_object_cache_inner(L, key)
        object == Sink_get_object_copy(sink, L.data, key, tr)
        put == put_object_copy(L, key, object.val, tw)
    IN  IF ~from_cache.res.ok THEN [L |-> from_cache.L, res |-> from_cache.res, calls |-> <<>>]
        ELSE IF from_cache.res.val # None
        THEN [L |-> from_cache.L, res |-> from_cache.res, calls |-> <<>>]
        ELSE IF ~object.ok
        THEN [L |-> L, res |-> Err(LruError(object.val)), calls |-> <<"get_object">>]
        ELSE IF object.val = None
        THEN [L |-> L, res |-> Ok(None), calls |-> <<"get_object">>]
        ELSE IF ~put.res.ok
        THEN [L |-> put.L, res |-> put.res, calls |-> <<"get_object">> \o put.calls]
        ELSE [L |-> put.L, res |-> Ok(object.val), calls |-> <<"get_object">> \o put.calls]

\* Mutant: the write is issued before the index is consulted.
Cache_put_object_if_not_exists_WriteFirst(L, key, value, tw) ==
    LET put == put_object(L, key, value, tw)
    IN  IF ~put.res.ok THEN put
        ELSE [put EXCEPT !.res = Ok(~Lru_exists_inner(L, key))]

\* storage.rs, Cache::put_object_if_not_exists (default method)
Cache_put_object_if_not_exists(L, key, value, tw) ==
    LET put == put_object(L, key, value, tw)
    IN  IF Lru_exists_inner(L, key) THEN [L |-> L, res |-> Ok(FALSE), calls |-> <<>>]
        ELSE IF ~put.res.ok THEN put
        ELSE [put EXCEPT !.res = Ok(TRUE)]

\* Mutant: the backend is asked as well as the index.
Cache_put_object_if_not_exists_copy_AskBackend(L, key, value, tw) ==
    LET put == put_object_copy(L, key, value, tw)
    IN  IF Lru_exists_inner(L, key) \/ key \in DOMAIN L.data
        THEN [L |-> L, res |-> Ok(FALSE), calls |-> <<>>]
        ELSE IF ~put.res.ok THEN put
        ELSE [put EXCEPT !.res = Ok(TRUE)]

\* storage/copy.rs, Cache::put_object_if_not_exists_copy (default method)
Cache_put_object_if_not_exists_copy(L, key, value, tw) ==
    LET put == put_object_copy(L, key, value, tw)
    IN  IF Lru_exists_inner(L, key) THEN [L |-> L, res |-> Ok(FALSE), calls |-> <<>>]
        ELSE IF ~put.res.ok THEN put
        ELSE [put EXCEPT !.res = Ok(TRUE)]

\* ------------------------------------------------------------------ the Cache
Self == [exists |-> exists, cache |-> cache, data |-> data]

\* One call on the cache: the Lru becomes out.L.
Call(out) ==
    /\ exists' = out.L.exists
    /\ cache' = out.L.cache
    /\ data' = out.L.data
    /\ UNCHANGED <<impl, sink, cap, call, lastWrite, listed, instance, peer>>

\* The outcomes of a request to the backend: Memory always answers.
Transport == IF sink = "memory" THEN {TRUE} ELSE BOOLEAN

\* The trait methods of the implementation in use.
CacheExists(L, key) == IF impl = "lru" THEN Lru_exists(L, key) ELSE exists_copy(L, key)

CacheListObjects(L, prefix) ==
    IF impl = "lru" THEN list_objects(L, prefix) ELSE list_objects_copy(L, prefix)

CachePutObject(L, key, value, tw) ==
    IF impl = "lru" THEN put_object(L, key, value, tw) ELSE put_object_copy(L, key, value, tw)

CachePutBytes(L, key, value, tw) ==
    IF impl = "lru" THEN put_bytes(L, key, value, tw) ELSE put_bytes_copy(L, key, value, tw)

CacheGetObject(L, key, tr, tw) ==
    IF impl = "lru" THEN get_object(L, key, tr, tw) ELSE get_object_copy(L, key, tr, tw)

CachePutObjectIfNotExists(L, key, value, tw) ==
    IF impl = "lru" THEN Cache_put_object_if_not_exists(L, key, value, tw)
    ELSE Cache_put_object_if_not_exists_copy(L, key, value, tw)

\* The log of cache uses after a put or a cache read of key.
Touch(r, key) == <<key>> \o SelectSeq(r, LAMBDA k : k # key)

Exists(key) ==
    /\ Call(CacheExists(Self, key))
    /\ UNCHANGED <<written, recency>>

PutObject(key, value) ==
    \E tw \in Transport :
        /\ Call(CachePutObject(Self, key, value, tw))
        /\ written' = written \cup {key}
        /\ recency' = IF serialize_value(value).ok THEN Touch(recency, key) ELSE recency

PutBytes(key, value) ==
    \E tw \in Transport :
        /\ Call(CachePutBytes(Self, key, value, tw))
        /\ written' = written \cup {key}
        /\ recency' = Touch(recency, key)

\* A read served by the cache, or one that fetched the object and put it
\* into the cache, is a use of the key.
GetObject(key) ==
    \E tr \in Transport, tw \in Transport :
        LET out == CacheGetObject(Self, key, tr, tw)
        IN  /\ Call(out)
            /\ recency' = IF key \in Resident(out.L.cache) THEN Touch(recency, key)
                          ELSE recency
            /\ UNCHANGED written

GetBytes(key) ==
    /\ Call(Lru_get_bytes_inner(Self, key))
    /\ recency' = IF key \in Resident(cache) THEN Touch(recency, key) ELSE recency
    /\ UNCHANGED written

ListObjects(prefix) ==
    /\ Call(CacheListObjects(Self, prefix))
    /\ UNCHANGED <<written, recency>>

\* A call that finds the key in the index issues no write.
PutObjectIfNotExists(key, value) ==
    \E tw \in Transport :
        LET out == CachePutObjectIfNotExists(Self, key, value, tw)
        IN  /\ Call(out)
            /\ written' = IF Lru_exists_inner(Self, key) THEN written ELSE written \cup {key}
            /\ recency' = IF ~Lru_exists_inner(Self, key) /\ serialize_value(value).ok
                          THEN Touch(recency, key) ELSE recency

\* Objects the backend may hold before the Lru is constructed.
Preexisting == {<<>>, Put(<<>>, KeyOne, Digits(1))}

Init ==
    /\ impl \in {"lru", "copy"}
    /\ sink \in {"memory", "s3"}
    /\ cap \in 1..MaxCap
    /\ data \in Preexisting
    /\ exists = {}
    /\ cache = <<>>
    /\ written = DOMAIN data
    /\ call = <<>>
    /\ lastWrite = <<>>
    /\ recency = <<>>
    /\ listed = Ok({})
    /\ peer = NoPeer
    /\ instance = NoInstance

Next ==
    \/ \E key \in Keys : Exists(key)
    \/ \E key \in Keys, value \in Values : PutObject(key, value)
    \/ \E key \in Keys, value \in BytesInputs : PutBytes(key, value)
    \/ \E key \in Keys : GetObject(key)
    \/ \E key \in Keys : GetBytes(key)
    \/ \E prefix \in Prefixes : ListObjects(prefix)
    \/ \E key \in Keys, value \in Values : PutObjectIfNotExists(key, value)

Spec == Init /\ [][Next]_vars
\* ------------------------------------------------------------------ the race
\* Callers of Sink::put_object_if_not_exists on one bucket, each through its
\* own S3 handle.  A call suspends at its exists request and at its write, so
\* the two requests of one call are separate steps.  Caller c writes IntV(c).
NCallers == 2
Callers == 1..NCallers

Started(key) == [pc |-> "start", key |-> key, res |-> Ok(Unit), failed |-> FALSE]

InitRace ==
    /\ impl = "copy"
    /\ sink = "s3"
    /\ cap = 1
    /\ data \in Preexisting
    /\ exists = {}
    /\ cache = <<>>
    /\ written = DOMAIN data
    /\ call \in [Callers -> {Started(key) : key \in Keys}]
    /\ lastWrite = [key \in Keys |-> 0]
    /\ recency = <<>>
    /\ listed = Ok({})
    /\ peer = NoPeer
    /\ instance = NoInstance

\* `if self.exists(key_with_parser).await? { Ok(false) } else { .. }`
RaceExists(c) ==
    /\ call[c].pc = "start"
    /\ \E te \in BOOLEAN :
        LET found == Sink_exists_copy(sink, data, call[c].key, te)
        IN  call' = [call EXCEPT ![c] =
                IF ~found.ok THEN [@ EXCEPT !.pc = "done", !.res = found, !.failed = TRUE]
                ELSE IF found.val THEN [@ EXCEPT !.pc = "done", !.res = Ok(FALSE)]
                ELSE [@ EXCEPT !.pc = "absent"]]
    /\ UNCHANGED <<impl, sink, cap, data, exists, cache, written, lastWrite, recency, listed, instance, peer>>

\* `self.put_object(key_with_parser, value).await?; Ok(true)`
RacePutObject(c) ==
    /\ call[c].pc = "absent"
    /\ \E tw \in BOOLEAN :
        LET put == Sink_put_object_copy(sink, data, call[c].key, IntV(c), tw)
        IN  /\ data' = put.data
            /\ call' = [call EXCEPT ![c] =
                    IF put.res.ok THEN [@ EXCEPT !.pc = "done", !.res = Ok(TRUE)]
                    ELSE [@ EXCEPT !.pc = "done", !.res = put.res, !.failed = ~tw]]
            /\ lastWrite' = IF put.res.ok THEN [lastWrite EXCEPT ![call[c].key] = c]
                            ELSE lastWrite
    /\ UNCHANGED <<impl, sink, cap, exists, cache, written, recency, listed, instance, peer>>

NextRace ==
    \/ \E c \in Callers : RaceExists(c)
    \/ \E c \in Callers : RacePutObject(c)

SpecRace == InitRace /\ [][NextRace]_vars
\* ------------------------------------------------------------------ listing
\* list_objects on the backends: the store holds at most MaxNames names of at
\* most NameLen characters over {"a", "/"} (segments "a", "aa", ..), and is
\* listed under every prefix of at most PrefixLen characters.
NameLen == 4
PrefixLen == 2
MaxNames == 2
Strings(n) == UNION {[1..k -> {"a", "/"}] : k \in 0..n}
ListNames == Strings(NameLen) \ {<<>>}
ListPrefixes == Strings(PrefixLen)
\* The payloads of the tests empty_bytes and bytes.
ListPayloads == {<<>>, <<42, 0, 9>>}

InitList ==
    /\ impl = "copy"
    /\ sink = "memory"
    /\ cap = 1
    /\ data = <<>>
    /\ exists = {}
    /\ cache = <<>>
    /\ written = {}
    /\ call = <<>>
    /\ lastWrite = <<>>
    /\ recency = <<>>
    /\ listed = Ok({})
    /\ peer = NoPeer
    /\ instance = NoInstance

ListPutBytes(key, value) ==
    /\ Cardinality(DOMAIN data \cup {key}) <= MaxNames
    /\ data' = Memory_put_bytes_copy(data, key, value).data
    /\ written' = written \cup {key}
    /\ UNCHANGED <<impl, sink, cap, exists, cache, call, lastWrite, recency, listed, instance, peer>>

ListMemory(prefix) ==
    /\ listed' = Ok(Memory_list_objects_inner(data, prefix))
    /\ UNCHANGED <<impl, sink, cap, data, exists, cache, written, call, lastWrite, recency, instance, peer>>

ListStorageMemory(prefix) ==
    /\ listed' = Ok(Memory_list_objects(data, prefix))
    /\ UNCHANGED <<impl, sink, cap, data, exists, cache, written, call, lastWrite, recency, instance, peer>>

ListS3(prefix) ==
    /\ \E t \in BOOLEAN : listed' = S3_list_objects_inner(data, prefix, t)
    /\ UNCHANGED <<impl, sink, cap, data, exists, cache, written, call, lastWrite, recency, instance, peer>>

NextList ==
    \/ \E key \in ListNames, value \in ListPayloads : ListPutBytes(key, value)
    \/ \E prefix \in ListPrefixes : ListMemory(prefix)
    \/ \E prefix \in ListPrefixes : ListStorageMemory(prefix)
    \/ \E prefix \in ListPrefixes : ListS3(prefix)

SpecList == InitList /\ [][NextList]_vars
\* ------------------------------------------------------------------ the Instance
\* A Uuid is its 16 bytes; Uuid::default() is the nil UUID.
Uuid_nil == [i \in 1..16 |-> 0]
Uuid_other == [i \in 1..16 |-> (i * 17) % 256]
Uuids == {Uuid_nil, Uuid_other}

HexDigits == <<"0", "1", "2", "3", "4", "5", "6", "7", "8", "9", "a", "b", "c", "d", "e", "f">>

\* Uuid::to_string: the hyphenated lower-case form, 8-4-4-4-12.
RECURSIVE Uuid_to_string(_)
Uuid_to_string(bytes) ==
    IF Len(bytes) = 0 THEN <<>>
    ELSE LET last == bytes[Len(bytes)]
             front == Uuid_to_string(SubSeq(bytes, 1, Len(bytes) - 1))
             hyphen == IF Len(bytes) \in {5, 7, 9, 11} THEN <<"-">> ELSE <<>>
         IN  front \o hyphen \o <<HexDigits[(last \div 16) + 1], HexDigits[(last % 16) + 1]>>

\* Option<Uuid>::unwrap_or_default, the option being a set of at most one Uuid
unwrap_or_default(instance_id) ==
    IF instance_id = {} THEN Uuid_nil ELSE CHOOSE uuid \in instance_id : TRUE

\* Configuration { instance_id }
Configurations == {[instance_id |-> {}]} \cup {[instance_id |-> {uuid}] : uuid \in Uuids}

\* InstanceKey::Welcome and InstanceKey::Initialize(String)
InstanceKey_Welcome == [variant |-> "Welcome"]
InstanceKey_Initialize(id) == [variant |-> "Initialize", id |-> id]
InstanceKeys ==
    {InstanceKey_Welcome} \cup {InstanceKey_Initialize(Uuid_to_string(uuid)) : uuid \in Uuids}

\* InstanceKey's name(): some function from the keys to names; the names of
\* two keys may be equal.
Namings == [InstanceKeys -> Keys]
InstanceKey_name(naming, key) == naming[key]

\* Welcome::default(): a struct holding the version of the crate. The model
\* keeps the version as one number, so that RETURN = Welcome is the parser's
\* number type.
Welcome_default == IntV(1)

\* Initialize, a unit struct: serde_json writes it as null.
Initialize == None

\* Instance::welcome
Instance_welcome(L, naming, tw) ==
    Cache_put_object_if_not_exists_copy(
        L, InstanceKey_name(naming, InstanceKey_Welcome), Welcome_default, tw)

\* Mutant: initialize uses the Welcome key.
Instance_initialize_WelcomeKey(L, naming, configuration, tw) ==
    Cache_put_object_if_not_exists_copy(
        L, InstanceKey_name(naming, InstanceKey_Welcome), Initialize, tw)

\* Instance::initialize
Instance_initialize(L, naming, configuration, tw) ==
    LET key == InstanceKey_Initialize(
                   Uuid_to_string(unwrap_or_default(configuration.instance_id)))
    IN  Cache_put_object_if_not_exists_copy(L, InstanceKey_name(naming, key), Initialize, tw)

\* Mutant: put_object overwrites (put_object_copy).
Instance_put_object_Overwrite(L, key, value, tw) == put_object_copy(L, key, value, tw)

\* Instance::put_object: the bool of put_object_if_not_exists_copy is dropped
Instance_put_object(L, key, value, tw) ==
    LET put == Cache_put_object_if_not_exists_copy(L, key, value, tw)
    IN  IF put.res.ok THEN [put EXCEPT !.res = Ok(Unit)] ELSE put

\* The environment of the process.
Envs ==
    [S3_ENDPOINT : {NotPresent, NotUnicode, Value("http://localhost:9000")},
     S3_REGION : {NotPresent, NotUnicode, Value("eu-west-3")}]

\* What an Instance of an earlier version of the crate, with the same
\* configuration, has left on the backend: its Welcome and its Initialize.
Initialised(naming, configuration) ==
    LET key == InstanceKey_Initialize(
                   Uuid_to_string(unwrap_or_default(configuration.instance_id)))
    IN  Put(Put(<<>>, InstanceKey_name(naming, key), serialize_value(Initialize).val),
            InstanceKey_name(naming, InstanceKey_Welcome), serialize_value(IntV(0)).val)

\* The backend is not constructed yet: `backend` holds the result of its
\* constructor once it has run, `before` what the backend held before. The
\* environment is read by S3::new only.
InitInstance ==
    /\ impl = "copy"
    /\ sink \in {"memory", "s3"}
    /\ cap \in 1..MaxCap
    /\ exists = {}
    /\ cache = <<>>
    /\ call = <<>>
    /\ lastWrite = <<>>
    /\ recency = <<>>
    /\ listed = Ok({})
    /\ peer = NoPeer
    /\ \E env \in Envs, configuration \in Configurations, naming \in Namings :
          /\ sink = "memory" => env = [S3_ENDPOINT |-> NotPresent, S3_REGION |-> NotPresent]
          /\ data \in {<<>>, Initialised(naming, configuration)}
          /\ instance = [pc |-> "start", env |-> env, configuration |-> configuration,
                         naming |-> naming, backend |-> Ok(Memory_default),
                         before |-> data]
    /\ written = DOMAIN data

\* S3::new(bucket) or Memory::default(), then Lru::new(size, backend)
InstanceBackend ==
    /\ instance.pc = "start"
    /\ LET backend == IF sink = "s3" THEN S3_new("bucket", instance.env)
                      ELSE Ok(Memory_default)
       IN  instance' = [instance EXCEPT !.backend = backend,
                                        !.pc = IF backend.ok THEN "new" ELSE "failed"]
    /\ UNCHANGED <<impl, sink, cap, data, exists, cache, written, call, lastWrite, recency,
                   listed, peer>>

\* One step of the Instance on its cache: the Lru becomes out.L.
InstanceCall(out, key, pc) ==
    /\ exists' = out.L.exists
    /\ cache' = out.L.cache
    /\ data' = out.L.data
    /\ written' = IF Lru_exists_inner(Self, key) THEN written ELSE written \cup {key}
    /\ recency' = IF key \in Resident(out.L.cache) /\ out.L.cache # cache
                  THEN Touch(recency, key) ELSE recency
    /\ instance' = [instance EXCEPT !.pc = pc]
    /\ UNCHANGED <<impl, sink, cap, call, lastWrite, listed, peer>>

\* `instance.welcome().await?`
InstanceWelcome ==
    /\ instance.pc = "new"
    /\ \E tw \in Transport :
          LET out == Instance_welcome(Self, instance.naming, tw)
          IN  InstanceCall(out, InstanceKey_name(instance.naming, InstanceKey_Welcome),
                           IF out.res.ok THEN "welcome" ELSE "error")

\* `.initialize().await`
InstanceInitialize ==
    /\ instance.pc = "welcome"
    /\ \E tw \in Transport :
          LET out == Instance_initialize(Self, instance.naming, instance.configuration, tw)
              key == InstanceKey_Initialize(
                         Uuid_to_string(unwrap_or_default(instance.configuration.instance_id)))
          IN  InstanceCall(out, InstanceKey_name(instance.naming, key),
                           IF out.res.ok THEN "ready" ELSE "error")

\* Instance::put_object on the constructed Instance
InstancePutObject(key, value) ==
    /\ instance.pc = "ready"
    /\ \E tw \in Transport :
          InstanceCall(Instance_put_object(Self, key, value, tw), key, "ready")

\* get_object_copy on Instance::cache()
InstanceGetObject(key) ==
    /\ instance.pc = "ready"
    /\ \E tr \in Transport, tw \in Transport :
          LET out == get_object_copy(Self, key, tr, tw)
          IN  /\ exists' = out.L.exists
              /\ cache' = out.L.cache
              /\ data' = out.L.data
              /\ recency' = IF key \in Resident(out.L.cache) THEN Touch(recency, key)
                            ELSE recency
              /\ UNCHANGED <<impl, sink, cap, written, call, lastWrite, listed, instance, peer>>

NextInstance ==
    \/ InstanceBackend
    \/ InstanceWelcome
    \/ InstanceInitialize
    \/ \E key \in Keys, value \in Values : InstancePutObject(key, value)
    \/ \E key \in Keys : InstanceGetObject(key)

SpecInstance == InitInstance /\ [][NextInstance]_vars

\* ------------------------------------------------------------------ two caches
\* Two Lru on one backend: a reader, the Lru (exists, cache), runs
\* get_object(key) while a writer, the Lru `peer`, runs put_object(key, value).
\* Each backend call is one step; what an Lru does to its own index and cache
\* between two backend calls is seen by nobody else and is part of the step
\* that follows.
ShareValue == IntV(MaxVal + 1)

InitShare ==
    /\ impl \in {"lru", "copy"}
    /\ sink \in {"memory", "s3"}
    /\ cap \in 1..MaxCap
    /\ \E key \in Keys :
          /\ data \in {<<>>, Put(<<>>, key, Digits(1))}
          /\ call = [key |-> key,
                     reader |-> [pc |-> "start", object |-> None, res |-> Ok(None)],
                     writer |-> [pc |-> "start", res |-> Ok(Unit)]]
    /\ exists = {}
    /\ cache = <<>>
    /\ written = DOMAIN data
    /\ lastWrite = <<>>
    /\ recency = <<>>
    /\ listed = Ok({})
    /\ instance = NoInstance
    /\ peer = NoPeer

\* get_object / get_object_copy of the reader, up to the answer to
\* `self.storage.get_object_copy(key_with_parser).await?`. Neither the index
\* nor the cache holds the key. get_object_copy returns a None at once,
\* get_object goes on to put it.
ShareFetch ==
    /\ call.reader.pc = "start"
    /\ \E tr \in Transport :
          LET object == Sink_get_object_copy(sink, data, call.key, tr)
          IN  call' = [call EXCEPT !.reader =
                  IF ~object.ok
                  THEN [pc |-> "done", object |-> None, res |-> Err(LruError(object.val))]
                  ELSE IF impl = "copy" /\ object.val = None
                  THEN [pc |-> "done", object |-> None, res |-> Ok(None)]
                  ELSE [pc |-> "fetched", object |-> object.val, res |-> Ok(None)]]
    /\ UNCHANGED <<impl, sink, cap, data, exists, cache, written, lastWrite, recency, listed,
                   instance, peer>>

\* `self.put_object(key_with_parser, &object).await?; Ok(object)` of the reader
ShareWriteBack ==
    /\ call.reader.pc = "fetched"
    /\ \E tw \in Transport :
          LET put == CachePutObject(Self, call.key, call.reader.object, tw)
          IN  /\ exists' = put.L.exists
              /\ cache' = put.L.cache
              /\ data' = put.L.data
              /\ call' = [call EXCEPT !.reader.pc = "done",
                                      !.reader.res = IF put.res.ok THEN Ok(call.reader.object)
                                                     ELSE put.res]
    /\ written' = written \cup {call.key}
    /\ recency' = Touch(recency, call.key)
    /\ UNCHANGED <<impl, sink, cap, lastWrite, listed, instance>>
    /\ UNCHANGED peer

\* put_object / put_object_copy of the writer on its own Lru
SharePut ==
    /\ call.writer.pc = "start"
    /\ \E tw \in Transport :
          LET put == CachePutObject([exists |-> peer.exists, cache |-> peer.cache,
                                     data |-> data], call.key, ShareValue, tw)
          IN  /\ peer' = [exists |-> put.L.exists, cache |-> put.L.cache]
              /\ data' = put.L.data
              /\ call' = [call EXCEPT !.writer = [pc |-> "done", res |-> put.res]]
    /\ written' = written \cup {call.key}
    /\ UNCHANGED <<impl, sink, cap, lastWrite, listed, instance>>
    /\ UNCHANGED <<exists, cache, recency>>

NextShare ==
    \/ ShareFetch
    \/ ShareWriteBack
    \/ SharePut

SpecShare == InitShare /\ [][NextShare]_vars

\* ------------------------------------------------------------------ Configuration
\* The value of a hexadecimal digit, or -1.
HexValue(c) ==
    IF \E i \in 1..16 : HexDigits[i] = c THEN (CHOOSE i \in 1..16 : HexDigits[i] = c) - 1
    ELSE -1

\* Uuid::parse_str on the hyphenated form: 36 characters, hyphens at the
\* four places, hexadecimal digits elsewhere.
Uuid_parse_str(value) ==
    LET hyphens == {9, 14, 19, 24}
        digits == SelectSeq([i \in 1..Len(value) |-> IF i \in hyphens THEN "-" ELSE value[i]],
                            LAMBDA c : c # "-")
    IN  IF /\ Len(value) = 36
           /\ \A i \in hyphens : value[i] = "-"
           /\ \A i \in (1..36) \ hyphens : HexValue(value[i]) >= 0
        THEN Ok([i \in 1..16 |-> 16 * HexValue(digits[2 * i - 1]) + HexValue(digits[2 * i])])
        ELSE Err("invalid UUID")

\* The contents of negentropy.toml: no instance_id, an instance_id, or text
\* that is not a Configuration.
Toml(instance_id) == [toml |-> TRUE, instance_id |-> instance_id]
NotToml == [toml |-> FALSE]

\* toml::from_str::<Configuration>
toml_from_str(content) ==
    IF content.toml THEN Ok([instance_id |-> content.instance_id])
    ELSE Err([kind |-> "BuilderError::Serde", message |-> "toml::de::Error"])

\* Mutant: the environment step keeps the id it was given when the variable
\* gives none.
Configuration_load_from_env_KeepsSelf(self, env) ==
    LET value == env_var(env, "NEGENTROPY_INSTANCE_ID")
        uuid == Uuid_parse_str(value.val)
    IN  [instance_id |-> IF value.ok /\ uuid.ok THEN {uuid.val} ELSE self.instance_id]

\* Configuration::load_from_env
Configuration_load_from_env(self, env) ==
    LET value == env_var(env, "NEGENTROPY_INSTANCE_ID")
        uuid == Uuid_parse_str(value.val)
    IN  [instance_id |-> IF value.ok /\ uuid.ok THEN {uuid.val} ELSE {}]

\* Configuration::load_from_file: `file` is what fs::read_to_string returns
Configuration_load_from_file(self, file) ==
    IF ~file.ok THEN Ok(self)
    ELSE LET config == toml_from_str(file.val)
         IN  IF ~config.ok THEN config
             ELSE Ok([instance_id |-> IF config.val.instance_id # {}
                                      THEN config.val.instance_id ELSE self.instance_id])

\* The values of the variable: unset, not Unicode, a UUID, and two strings
\* that are not UUIDs.
InstanceIdVars ==
    {NotPresent, NotUnicode, Value(<<"n", "o">>),
     Value(SubSeq(Uuid_to_string(Uuid_other), 1, 35))}
        \cup {Value(Uuid_to_string(uuid)) : uuid \in Uuids}

\* The file: it cannot be read, or it holds one of the contents.
ConfigurationFiles ==
    {Err("io::Error"), Ok(NotToml)} \cup {Ok(Toml(c.instance_id)) : c \in Configurations}

\* Configuration::load has been called on some Configuration; ProjectDirs::from
\* finds the directories of the project or not.
InitLoad ==
    /\ impl = "copy"
    /\ sink = "memory"
    /\ cap = 1
    /\ data = <<>>
    /\ exists = {}
    /\ cache = <<>>
    /\ written = {}
    /\ call = <<>>
    /\ lastWrite = <<>>
    /\ recency = <<>>
    /\ listed = Ok({})
    /\ peer = NoPeer
    /\ \E self \in Configurations, file \in ConfigurationFiles, value \in InstanceIdVars,
          project_dirs \in BOOLEAN :
          instance = [pc |-> "load", configuration |-> self, before |-> self, file |-> file,
                      env |-> [NEGENTROPY_INSTANCE_ID |-> value],
                      project_dirs |-> project_dirs, result |-> Ok(self)]

\* `self.load_from_file(..)?`
LoadFromFile ==
    /\ instance.pc = "load"
    /\ instance.project_dirs
    /\ LET loaded == Configuration_load_from_file(instance.configuration, instance.file)
       IN  instance' = [instance EXCEPT
               !.pc = IF loaded.ok THEN "file" ELSE "failed",
               !.configuration = IF loaded.ok THEN loaded.val ELSE @,
               !.result = loaded]
    /\ UNCHANGED <<impl, sink, cap, data, exists, cache, written, call, lastWrite, recency,
                   listed, peer>>

\* `.load_from_env(&prefix)`, after the file step or without it
LoadFromEnv ==
    /\ \/ instance.pc = "file"
       \/ instance.pc = "load" /\ ~instance.project_dirs
    /\ LET loaded == Configuration_load_from_env(instance.configuration, instance.env)
       IN  instance' = [instance EXCEPT !.pc = "loaded", !.configuration = loaded,
                                        !.result = Ok(loaded)]
    /\ UNCHANGED <<impl, sink, cap, data, exists, cache, written, call, lastWrite, recency,
                   listed, peer>>

NextLoad ==
    \/ LoadFromFile
    \/ LoadFromEnv

SpecLoad == InitLoad /\ [][NextLoad]_vars

\* ================================================================== claims
Stored(d, key, value) == key \in DOMAIN d /\ d[key] = serialize_value(value).val
Returned(out, value) == out.res.ok /\ out.res.val = value

\* C1: a put_object or put_bytes whose backend write returns an error leaves
\* the bounded cache and the existence index exactly as they were before the
\* call (the backend is written first, the cache only after it succeeded).
C1_BackendFirst ==
    \A key \in Keys, tw \in Transport :
        /\ \A value \in Values :
              LET out == CachePutObject(Self, key, value, tw)
              IN  (out.calls # <<>> /\ ~out.res.ok) =>
                      (out.L.cache = cache /\ out.L.exists = exists)
        /\ \A value \in BytesInputs :
              LET out == CachePutBytes(Self, key, value, tw)
              IN  (out.calls # <<>> /\ ~out.res.ok) =>
                      (out.L.cache = cache /\ out.L.exists = exists)

\* C2: every payload resident in the bounded cache under a name is the
\* payload the backend currently holds under that name.
C2_CacheMirrorsBackend ==
    \A i \in 1..Len(cache) :
        /\ cache[i].key \in DOMAIN data
        /\ data[cache[i].key] = cache[i].value

\* C3: after a successful put_object(k, v), an immediately following
\* get_object(k) returns Some(v) and makes no backend call, whatever the
\* prior state and the capacity.
C3_ReadYourWrite ==
    \A key \in Keys, value \in Values, tw \in Transport :
        LET put == CachePutObject(Self, key, value, tw)
        IN  put.res.ok =>
                \A tr \in BOOLEAN, tw2 \in BOOLEAN :
                    LET get == CacheGetObject(put.L, key, tr, tw2)
                    IN  Returned(get, Some(value)) /\ get.calls = <<>>

\* C3 witness: the cache is full of other names, the put evicts one of them
\* and the read that follows is served from the cache.
C3_Witness ==
    \E key \in Keys \ Resident(cache), value \in IntValues :
        /\ Len(cache) = cap
        /\ LET put == CachePutObject(Self, key, value, TRUE)
               get == CacheGetObject(put.L, key, TRUE, TRUE)
           IN  put.res.ok /\ Returned(get, Some(value)) /\ get.calls = <<>>

\* The successful put_object calls of the names of `names`, in order.
RECURSIVE PutEach(_, _, _)
PutEach(L, names, value) ==
    IF Len(names) = 0 THEN L
    ELSE PutEach(CachePutObject(L, names[1], value, TRUE).L,
                 [i \in 1..(Len(names) - 1) |-> names[i + 1]], value)

\* The sequences of n distinct names other than key.
Others(key, n) ==
    {names \in [1..n -> Keys \ {key}] : \A i, j \in 1..n : i # j => names[i] # names[j]}

\* C4: on a cache of capacity N, after put_object(k, v) and N successful
\* put_object calls on N distinct other names, get_object(k) returns Some(v)
\* fetched from the backend and k is resident in the bounded cache again.
C4_EvictionHealing ==
    \A key \in Keys, value \in IntValues, other \in IntValues :
        \A names \in Others(key, cap) :
            LET first == CachePutObject(Self, key, value, TRUE).L
                evicted == PutEach(first, names, other)
                get == CacheGetObject(evicted, key, TRUE, TRUE)
            IN  /\ Returned(get, Some(value))
                /\ get.calls # <<>>
                /\ key \in Resident(get.L.cache)

\* C5: get_object of a name that has never been written returns None and
\* not an error, on the in-process backend and through the Cache, on the
\* first call and on every repeated call.
C5_Absence ==
    /\ \A key \in Keys \ DOMAIN data :
          Memory_get_object_inner(data, key) = Ok(None)
    /\ \A key \in Keys \ written :
          Returned(CacheGetObject(Self, key, TRUE, TRUE), None)

\* C6: a name is in the existence index if and only if the backend holds an
\* object under that name.
C6_IndexIffBackend == exists = DOMAIN data

\* C7: for a name with no earlier write, put_object_if_not_exists(k, v)
\* returns true and stores v, on the backend and through the Cache; a call
\* that returned true leaves the name marked, and for a marked name every
\* call returns false, also when the name is not resident in the cache.
C7_WriteOnce ==
    /\ \A key \in Keys \ written, value \in IntValues :
          LET out == CachePutObjectIfNotExists(Self, key, value, TRUE)
          IN  Returned(out, TRUE) /\ Stored(out.L.data, key, value)
    /\ \A key \in Keys \ DOMAIN data, value \in IntValues :
          LET out == Sink_put_object_if_not_exists_copy(sink, data, key, value, TRUE, TRUE)
              later == Sink_put_object_if_not_exists_copy(sink, out.data, key, value, TRUE, TRUE)
          IN  Returned(out, TRUE) /\ Stored(out.data, key, value) /\ Returned(later, FALSE)
    /\ \A key \in Keys, value \in IntValues :
          LET out == CachePutObjectIfNotExists(Self, key, value, TRUE)
          IN  Returned(out, TRUE) => key \in out.L.exists
    /\ \A key \in exists, value \in IntValues :
          Returned(CachePutObjectIfNotExists(Self, key, value, TRUE), FALSE)

\* C8: when put_object_if_not_exists finds that the key exists it returns
\* false and writes nothing: the backend, the bounded cache (contents and
\* recency order) and the existence index are unchanged and no backend call
\* is made for the value.
C8_NoWriteWhenExists ==
    /\ \A key \in exists, value \in Values, tw \in BOOLEAN :
          /\ Cache_put_object_if_not_exists(Self, key, value, tw)
                = [L |-> Self, res |-> Ok(FALSE), calls |-> <<>>]
          /\ Cache_put_object_if_not_exists_copy(Self, key, value, tw)
                = [L |-> Self, res |-> Ok(FALSE), calls |-> <<>>]
    /\ \A key \in DOMAIN data, value \in Values, tw \in BOOLEAN :
          /\ Sink_put_object_if_not_exists(sink, data, key, value, TRUE, tw)
                = [data |-> data, res |-> Ok(FALSE)]
          /\ Sink_put_object_if_not_exists_copy(sink, data, key, value, TRUE, tw)
                = [data |-> data, res |-> Ok(FALSE)]
          /\ Storage_put_object_if_not_exists(data, key, value, TRUE, tw)
                = [data |-> data, res |-> Ok(FALSE)]

\* C8 witness: a name that is in the index and on the backend but evicted
\* from the cache, and a value that differs from the stored one.
C8_Witness ==
    \E key \in exists \ Resident(cache), value \in IntValues :
        /\ key \in DOMAIN data
        /\ ~Stored(data, key, value)
        /\ cache # <<>>
        /\ Returned(CachePutObjectIfNotExists(Self, key, value, TRUE), FALSE)

\* C9: whatever the interleaving of two racing put_object_if_not_exists
\* calls, a call returns an error only when its own request to the backend
\* failed, and once every call has returned the backend holds, under each
\* name written, the value of the write that happened last.
AllDone == \A c \in Callers : call[c].pc = "done"
C9_LastWriteWins ==
    /\ \A c \in Callers :
          (call[c].pc = "done" /\ ~call[c].failed) => call[c].res.ok
    /\ AllDone =>
          \A key \in Keys :
              lastWrite[key] # 0 => Stored(data, key, IntV(lastWrite[key]))

\* C9 witness: two callers of the same unwritten name have both observed
\* "not exists", both written and both returned true.
C9_Witness ==
    \E c1 \in Callers, c2 \in Callers :
        /\ c1 # c2
        /\ call[c1].key = call[c2].key
        /\ AllDone
        /\ Returned(call[c1], TRUE) /\ Returned(call[c2], TRUE)
        /\ lastWrite[call[c1].key] = c2
        /\ Stored(data, call[c1].key, IntV(c2))

\* C10: the number of entries resident in the bounded cache never exceeds
\* the capacity given to Lru::new.
C10_Bounded == Len(cache) <= cap

\* C10 witness: a full cache from which a name has been evicted.
C10_Witness ==
    /\ Len(cache) = cap
    /\ cap > 1
    /\ exists \ Resident(cache) # {}

\* The position of a name in the log of cache uses (1 = used last).
Position(r, key) == CHOOSE i \in 1..Len(r) : r[i] = key

\* The resident name whose latest put or cache read is the oldest.
LeastRecent ==
    CHOOSE k \in Resident(cache) :
        \A j \in Resident(cache) : Position(recency, k) >= Position(recency, j)

\* A put of `key` that produced the cache `c` evicted the least recently
\* used entry and only that one, or replaced the payload of a resident key.
PutKeepsRecent(c, key, bytes) ==
    /\ Payload(c, key) = bytes
    /\ (key \notin Resident(cache) /\ Len(cache) = cap) =>
            /\ Resident(c) = (Resident(cache) \ {LeastRecent}) \cup {key}
            /\ \A k \in Resident(cache) \ {LeastRecent} : Payload(c, k) = Payload(cache, k)
    /\ key \in Resident(cache) =>
            /\ Resident(c) = Resident(cache)
            /\ \A k \in Resident(cache) \ {key} : Payload(c, k) = Payload(cache, k)

\* C11: a put of a name that is not resident into a full bounded cache
\* removes exactly one entry, the one whose latest put or cache read
\* (get_object hit, get_bytes hit) is the oldest; a put of a resident name
\* replaces its payload and evicts nothing; exists and list_objects leave the
\* recency order as it is.
C11_LeastRecentlyUsedEvicted ==
    /\ \A k \in Resident(cache) : \E i \in 1..Len(recency) : recency[i] = k
    /\ \A key \in Keys, tw \in Transport :
          /\ \A bytes \in BytesInputs :
                PutKeepsRecent(CachePutBytes(Self, key, bytes, tw).L.cache, key, bytes)
          /\ \A value \in IntValues :
                PutKeepsRecent(CachePutObject(Self, key, value, tw).L.cache, key,
                               serialize_value(value).val)
    /\ \A key \in Keys : CacheExists(Self, key).L.cache = cache
    /\ \A prefix \in Prefixes : CacheListObjects(Self, prefix).L.cache = cache

\* C11 witness: a full cache of more than one entry that has already evicted
\* a name, and a put of a name that is not resident, which drops the least
\* recently used entry and keeps the others.
C11_Witness ==
    /\ Len(cache) = cap
    /\ cap > 1
    /\ exists \ Resident(cache) # {}
    /\ \E key \in Keys \ Resident(cache) :
          LET c == CachePutBytes(Self, key, Digits(MaxVal), TRUE).L.cache
          IN  /\ LeastRecent \notin Resident(c)
              /\ Cardinality(Resident(c)) = cap

\* The call `out` on the key, made in the current state, left every name it
\* evicted in the index and on the backend as it was: the only backend call
\* is the write of the key itself.
EvictionIsLocal(out, key) ==
    \A k \in Resident(cache) \ Resident(out.L.cache) :
        /\ k # key
        /\ k \in out.L.exists
        /\ Returned(CacheExists(out.L, k), TRUE)
        /\ (k \in DOMAIN data) = (k \in DOMAIN out.L.data)
        /\ k \in DOMAIN data => out.L.data[k] = data[k]
        /\ out.calls \in {<<"put_bytes">>, <<"get_object", "put_bytes">>}

\* C12: an eviction from the bounded cache makes no backend call for the
\* evicted name, leaves its backend object and the existence index
\* unchanged, and exists(k) is still true for the evicted name k.
C12_EvictionLocal ==
    /\ \A k \in exists : Returned(CacheExists(Self, k), TRUE)
    /\ \A key \in Keys, tw \in Transport :
          /\ \A bytes \in BytesInputs :
                EvictionIsLocal(CachePutBytes(Self, key, bytes, tw), key)
          /\ \A value \in Values :
                EvictionIsLocal(CachePutObject(Self, key, value, tw), key)
          /\ \A tr \in Transport :
                EvictionIsLocal(CacheGetObject(Self, key, tr, tw), key)

\* C12 witness: a name held by the backend has been evicted from a full
\* cache and is still in the index, and the next put evicts another one.
C12_Witness ==
    /\ Len(cache) = cap
    /\ \E k \in exists \ Resident(cache) : k \in DOMAIN data /\ Returned(CacheExists(Self, k), TRUE)
    /\ \E key \in Keys \ Resident(cache) :
          LET out == CachePutBytes(Self, key, Digits(MaxVal), TRUE)
          IN  /\ Resident(cache) \ Resident(out.L.cache) # {}
              /\ EvictionIsLocal(out, key)

\* C13: exists(k) of the Cache returns true exactly when the existence
\* index contains k; it makes no backend call, never returns an error and
\* changes neither the index, the bounded cache nor the backend.
C13_ExistsIsIndexLookup ==
    \A key \in Keys :
        /\ Lru_exists(Self, key) = [L |-> Self, res |-> Ok(key \in exists), calls |-> <<>>]
        /\ exists_copy(Self, key) = [L |-> Self, res |-> Ok(key \in exists), calls |-> <<>>]
        /\ CacheExists(Self, key).res.ok

\* C13 witness: the three cases differ from what the cache and the backend
\* would answer: an evicted name in the index, a name in the index that the
\* backend does not hold, and a name the backend holds that is not in the
\* index.
C13_Witness ==
    /\ \E key \in exists \ Resident(cache) : Returned(CacheExists(Self, key), TRUE)
    /\ \E key \in exists \ DOMAIN data : Returned(CacheExists(Self, key), TRUE)
    /\ \E key \in DOMAIN data \ exists : Returned(CacheExists(Self, key), FALSE)

\* The part of a name after the prefix, and whether a string has a delimiter.
Remainder(name, prefix) == SubSeq(name, Len(prefix) + 1, Len(name))
HasDelimiter(str) == \E i \in 1..Len(str) : str[i] = "/"

\* The positions at which a name is rolled up under the prefix: the first
\* delimiter after the prefix, when the segment before it is not empty.
RollupAt(name, prefix) ==
    {n \in (Len(prefix) + 2)..Len(name) :
        /\ name[n] = "/"
        /\ \A j \in (Len(prefix) + 1)..(n - 1) : name[j] # "/"}

\* The one-level listing of a set of names, as the specification states it.
OneLevel(names, prefix) ==
    LET matching == {name \in names : starts_with(name, prefix)}
    IN  {name \in matching : ~HasDelimiter(Remainder(name, prefix))}
            \cup UNION {{SubSeq(name, 1, n) : n \in RollupAt(name, prefix)} : name \in matching}

\* C14: for every set of stored names and every prefix, list_objects(prefix)
\* of the in-process backend is the set of: each stored name that starts
\* with the prefix and has no '/' in its remainder; nothing for a remainder
\* that starts with '/'; otherwise prefix + first segment + '/'.  No entry
\* extends more than one segment below the prefix.
C14_OneLevelListing ==
    \A prefix \in ListPrefixes :
        LET list == Memory_list_objects_inner(data, prefix)
        IN  /\ list = OneLevel(DOMAIN data, prefix)
            /\ \A entry \in list :
                  /\ starts_with(entry, prefix)
                  /\ \A i \in (Len(prefix) + 1)..(Len(entry) - 1) : entry[i] # "/"

\* C14 witness: under a prefix that is not empty the store holds a leaf and a
\* name that goes on after its first segment below the prefix, and the
\* listing under that prefix has been taken.
C14_Witness ==
    \E prefix \in ListPrefixes \ {<<>>} :
        /\ \E name \in DOMAIN data :
              starts_with(name, prefix) /\ Len(name) > Len(prefix)
                  /\ ~HasDelimiter(Remainder(name, prefix))
        /\ \E name \in DOMAIN data :
              starts_with(name, prefix) /\ RollupAt(name, prefix) # {}
                  /\ \E n \in RollupAt(name, prefix) : n < Len(name)
        /\ listed = Ok(Memory_list_objects_inner(data, prefix))
        /\ Cardinality(listed.val) = 2

\* A store that holds the one name.
Only(name) == Put(<<>>, name, Digits(1))

\* C15: a stored name whose remainder after the prefix begins with '/'
\* contributes no entry to the listing, for every prefix including the
\* empty one, in radix_key (storage.rs) and in Memory::list_objects
\* (storage/memory.rs).
C15_LeadingDelimiterSkipped ==
    \A prefix \in ListPrefixes, name \in DOMAIN data :
        (starts_with(name, prefix) /\ Len(name) > Len(prefix) /\ name[Len(prefix) + 1] = "/") =>
            /\ radix_key(prefix, name) = {}
            /\ Memory_list_objects_inner(Only(name), prefix) = {}
            /\ Memory_list_objects(Only(name), prefix) = {}

\* The first segments below the prefix that are rolled up.
FirstSegments(names, prefix) ==
    UNION {{SubSeq(name, 1, n) : n \in RollupAt(name, prefix)} :
                name \in {x \in names : starts_with(x, prefix)}}

\* C16: writing one more name whose first segment below the prefix is
\* already listed as prefix + segment + '/' leaves list_objects(prefix)
\* unchanged, whatever the depth of the new name; each distinct first
\* segment is listed exactly once.
C16_RollupCollapses ==
    \A prefix \in ListPrefixes :
        LET list == Memory_list_objects_inner(data, prefix)
        IN  /\ \A name \in ListNames :
                  (starts_with(name, prefix) /\ FirstSegments({name}, prefix) # {}
                        /\ FirstSegments({name}, prefix) \subseteq list) =>
                      Memory_list_objects_inner(Memory_put_bytes_inner(data, name, Digits(1)),
                                                prefix) = list
            /\ \A segment \in FirstSegments(DOMAIN data, prefix) :
                  Cardinality({entry \in list : entry = segment}) = 1

\* C16 witness: two stored names of different depth share their first
\* segment, and a third one with the same segment can be written.
C16_Witness ==
    \E prefix \in ListPrefixes, n1 \in DOMAIN data, n2 \in DOMAIN data :
        /\ n1 # n2
        /\ Len(n1) < Len(n2)
        /\ FirstSegments({n1}, prefix) # {}
        /\ FirstSegments({n1}, prefix) = FirstSegments({n2}, prefix)
        /\ Memory_list_objects_inner(data, prefix) = FirstSegments({n1}, prefix)
        /\ \E n3 \in ListNames \ DOMAIN data :
              /\ FirstSegments({n3}, prefix) = FirstSegments({n1}, prefix)
              /\ Memory_list_objects_inner(Memory_put_bytes_inner(data, n3, Digits(1)), prefix)
                    = FirstSegments({n1}, prefix)

\* C17: for every set of stored names and every prefix, list_objects on the
\* in-process backend and list_objects on the remote backend return the
\* same set of strings.
C17_ListingTransparent ==
    \A prefix \in ListPrefixes :
        S3_list_objects_inner(data, prefix, TRUE) = Ok(Memory_list_objects_inner(data, prefix))

\* C18: the result of the remote backend's list_objects is the union of the
\* object entries and the common-prefix entries of the store's answer.
C18_ListingUnion ==
    \A prefix \in ListPrefixes :
        LET answer == ListObjectsV2(data, prefix)
        IN  S3_list_objects_inner(data, prefix, TRUE)
                = Ok(answer.contents \cup answer.common_prefixes)

\* C19: in every reachable state, also after failed backend writes, and for
\* every prefix, each entry returned by list_objects of the Cache is also
\* returned by list_objects of the wrapped backend.
C19_NoOverReport ==
    \A prefix \in Prefixes :
        LET cached == CacheListObjects(Self, prefix)
            backend == Sink_list_objects_copy(sink, data, prefix, TRUE)
        IN  /\ cached.res.ok
            /\ \A entry \in cached.res.val : backend.ok /\ entry \in backend.val

\* The errors of the serialization kind: MemoryError::Serde, S3Error::Serde
\* and LruError::Parser.
SerdeKind == {"MemoryError::Serde", "S3Error::Serde", "LruError::Parser"}

\* C20: when the parser fails to serialize the value, put_object fails with
\* an error of the serialization kind and changes nothing: the backend is
\* neither contacted nor changed, and through the Cache the bounded cache
\* and the existence index are unchanged too.  In-process backend, remote
\* backend and Cache alike.
C20_SerializationFailure ==
    \A key \in Keys, tw \in BOOLEAN :
        LET memory == Memory_put_object_inner(data, key, Unserializable)
            s3 == S3_put_object_inner(data, key, Unserializable, tw)
            lru == put_object(Self, key, Unserializable, tw)
            copy == put_object_copy(Self, key, Unserializable, tw)
        IN  /\ memory.data = data /\ ~memory.res.ok /\ memory.res.val.kind \in SerdeKind
            /\ s3.data = data /\ ~s3.res.ok /\ s3.res.val.kind \in SerdeKind
            /\ lru.L = Self /\ lru.calls = <<>> /\ ~lru.res.ok /\ lru.res.val.kind \in SerdeKind
            /\ copy.L = Self /\ copy.calls = <<>> /\ ~copy.res.ok /\ copy.res.val.kind \in SerdeKind

\* C21: exists on the remote backend: a NotFound answer of the probe gives
\* Ok(false), the object's metadata gives Ok(true), every other failure gives
\* an error carrying the operation name "exists", the key name and the
\* transport message; an absent object is never an error.
C21_RemoteExists ==
    /\ \A key \in Keys, t \in BOOLEAN :
          LET head_object == HeadObject(data, key, t)
              out == S3_exists_inner(data, key, t)
          IN  /\ head_object = "NotFound" => (out.ok /\ out.val = FALSE)
              /\ head_object = "HeadObjectOutput" => (out.ok /\ out.val = TRUE)
              /\ head_object = "SdkError" =>
                    (~out.ok /\ out.val = S3Error_S3Exists("exists", key, SdkErrorMessage))
              /\ (t /\ key \notin DOMAIN data) => (out.ok /\ out.val = FALSE)
    /\ \A c \in Callers :
          (call[c].pc = "done" /\ ~call[c].res.ok /\ call[c].res.val.kind = "S3Error::S3Exists") =>
              (call[c].res.val.operation = "exists" /\ call[c].res.val.key = call[c].key)

\* C21 witness: one caller's probe failed in transport, another caller's
\* probe found the object, and a third name is absent and probed without
\* error.
C21_Witness ==
    \E c1 \in Callers, c2 \in Callers :
        /\ call[c1].pc = "done" /\ ~call[c1].res.ok
        /\ call[c1].res.val = S3Error_S3Exists("exists", call[c1].key, SdkErrorMessage)
        /\ call[c2].pc = "done" /\ Returned(call[c2], FALSE)
        /\ \E key \in Keys \ DOMAIN data :
              S3_exists_inner(data, key, TRUE).ok /\ ~S3_exists_inner(data, key, TRUE).val

\* C22: get_object of a backend returns Ok(None) when the object is absent
\* (remote: NoSuchKey answer or zero content length; in-process: name not in
\* the map), Ok(Some(value)) when the payload deserializes, and an error,
\* never None, when the transport or the deserialization fails.
C22_AbsentIsNotFailed ==
    \A key \in Keys :
        LET memory == Memory_get_object_inner(data, key)
            parsed == deserialize_value(data[key])
        IN  /\ key \notin DOMAIN data =>
                  /\ memory = Ok(None)
                  /\ S3_get_object_inner(data, key, TRUE) = Ok(None)
            /\ (key \in DOMAIN data /\ Len(data[key]) = 0) =>
                  S3_get_object_inner(data, key, TRUE) = Ok(None)
            /\ (key \in DOMAIN data /\ parsed.ok) =>
                  /\ memory = Ok(Some(parsed.val))
                  /\ S3_get_object_inner(data, key, TRUE) = Ok(Some(parsed.val))
            /\ (key \in DOMAIN data /\ ~parsed.ok) =>
                  /\ memory = Err(MemoryError_Serde(parsed.val))
                  /\ Len(data[key]) > 0 =>
                        S3_get_object_inner(data, key, TRUE) = Err(S3Error_Serde(parsed.val))
            /\ S3_get_object_inner(data, key, FALSE)
                  = Err(S3Error_S3Object("get_object", key, SdkErrorMessage))
            /\ (key \in DOMAIN data /\ Len(data[key]) > 0) =>
                  parse_s3_object(BrokenBody(data[key]), key)
                      = Err(S3Error_S3Object("parse_s3_object", key, SdkErrorMessage))

\* C22 witness: the backend holds a payload that deserializes, one that does
\* not (the text null) and an empty one.
C22_Witness ==
    /\ \E key \in DOMAIN data : deserialize_value(data[key]).ok
    /\ \E key \in DOMAIN data : data[key] = NullBytes
    /\ \E key \in DOMAIN data : data[key] = <<>>

\* C23: on the in-process backend exists, put_bytes and list_objects never
\* return an error, and put_object and get_object fail only with a
\* serialization error.
C23_MemoryErrors ==
    \A key \in Keys :
        /\ Memory_exists_copy(data, key).ok
        /\ \A bytes \in BytesInputs : Memory_put_bytes_copy(data, key, bytes).res.ok
        /\ \A prefix \in Prefixes : Memory_list_objects_copy(data, prefix).ok
        /\ \A value \in Values \cup {None} :
              LET put == Memory_put_object_copy(data, key, value)
              IN  ~put.res.ok =>
                      /\ put.res.val.kind = "MemoryError::Serde"
                      /\ ~serialize_value(value).ok
        /\ LET get == Memory_get_object_copy(data, key)
           IN  ~get.ok =>
                   /\ get.val.kind = "MemoryError::Serde"
                   /\ key \in DOMAIN data
                   /\ ~deserialize_value(data[key]).ok

\* C23 witness: an in-process backend that holds a payload the parser
\* rejects, so that get_object fails, next to an absent name, for which it
\* does not.
C23_Witness ==
    /\ sink = "memory"
    /\ \E key \in DOMAIN data : ~Memory_get_object_copy(data, key).ok
    /\ \E key \in Keys \ DOMAIN data : Memory_get_object_copy(data, key).ok
    /\ \E key \in Keys : ~Memory_put_object_copy(data, key, Unserializable).res.ok

\* C24: put_bytes on the in-process backend is an unconditional overwrite:
\* after put_bytes(k, b), for any b including the empty payload and whether
\* or not k existed, get_bytes(k) returns exactly b, len() is the number of
\* distinct names written so far and the payload of every other name is
\* unchanged.
C24_PutBytesOverwrites ==
    /\ Memory_len(data) = Cardinality(written)
    /\ \A key \in ListNames, bytes \in ListPayloads :
          LET after == Memory_put_bytes_copy(data, key, bytes)
          IN  /\ after.res.ok
              /\ Memory_get_bytes(after.data, key) = {bytes}
              /\ Memory_len(after.data) = Cardinality(written \cup {key})
              /\ \A other \in DOMAIN data \ {key} :
                    Memory_get_bytes(after.data, other) = Memory_get_bytes(data, other)

\* C24 witness: the backend holds the empty payload under one name and a
\* non-empty one under another, and each is overwritten by the other payload
\* without len() changing.
C24_Witness ==
    \E k1 \in DOMAIN data, k2 \in DOMAIN data :
        /\ data[k1] = <<>>
        /\ data[k2] # <<>>
        /\ Memory_get_bytes(Memory_put_bytes_copy(data, k1, data[k2]).data, k1) = {data[k2]}
        /\ Memory_get_bytes(Memory_put_bytes_copy(data, k2, <<>>).data, k2) = {<<>>}
        /\ Memory_len(Memory_put_bytes_copy(data, k2, <<>>).data) = Memory_len(data)

\* The names the backend holds.
Names(d) == DOMAIN d

\* C25: no operation destroys a stored object and a backend object comes into
\* existence only through a successful write: every operation keeps the names
\* the backend holds, and exists, get_object, list_objects, a failed write and
\* a put_object_if_not_exists that does not return true add none.
C25_NoDestruction ==
    /\ \A key \in Keys :
          /\ Names(CacheExists(Self, key).L.data) = Names(data)
          /\ Names(Lru_get_bytes_inner(Self, key).L.data) = Names(data)
          /\ \A tr \in Transport, tw \in Transport :
                Names(CacheGetObject(Self, key, tr, tw).L.data) = Names(data)
          /\ \A tw \in Transport :
                /\ \A value \in Values :
                      LET put == CachePutObject(Self, key, value, tw)
                          once == CachePutObjectIfNotExists(Self, key, value, tw)
                      IN  /\ Names(data) \subseteq Names(put.L.data)
                          /\ Names(data) \subseteq Names(once.L.data)
                          /\ ~put.res.ok => Names(put.L.data) = Names(data)
                          /\ ~Returned(once, TRUE) => Names(once.L.data) = Names(data)
                /\ \A bytes \in BytesInputs :
                      LET put == CachePutBytes(Self, key, bytes, tw)
                      IN  /\ Names(data) \subseteq Names(put.L.data)
                          /\ ~put.res.ok => Names(put.L.data) = Names(data)
    /\ \A prefix \in Prefixes : Names(CacheListObjects(Self, prefix).L.data) = Names(data)

\* The requests an operation sent to the backend include a write.
IssuesWrite(out) == \E i \in DOMAIN out.calls : out.calls[i] = "put_bytes"

\* C26: read-through on a stale index: when the index does not contain k
\* and the backend holds v under k, get_object(k) returns Some(v), makes k
\* resident, adds k to the index and leaves the backend unchanged, issuing no
\* backend write.
C26_ReadThrough ==
    \A key \in Names(data) \ exists :
        LET object == Sink_get_object_copy(sink, data, key, TRUE)
        IN  (object.ok /\ object.val # None) =>
                \A tw \in Transport :
                    LET out == CacheGetObject(Self, key, TRUE, tw)
                    IN  /\ Returned(out, object.val)
                        /\ key \in Resident(out.L.cache)
                        /\ key \in out.L.exists
                        /\ out.L.data = data
                        /\ ~IssuesWrite(out)

\* C27: a read of an absent name changes nothing: when neither the index nor
\* the backend holds k, get_object(k) leaves the backend, the cache and the
\* index unchanged and exists(k) is still false afterwards, in both Lru
\* implementations.
C27_AbsentReadChangesNothing ==
    \A key \in Keys \ (exists \cup Names(data)) :
        \A tr \in Transport, tw \in Transport :
            LET lru == get_object(Self, key, tr, tw)
                copy == get_object_copy(Self, key, tr, tw)
            IN  /\ lru.L = Self
                /\ Returned(Lru_exists(lru.L, key), FALSE)
                /\ copy.L = Self
                /\ Returned(exists_copy(copy.L, key), FALSE)

\* C29: list_objects for a prefix that no stored name starts with, the
\* empty store included, returns the empty set and not an error on the
\* in-process backend and on the remote backend alike; the remote backend's
\* malformed-response error is distinct from its transport-failure listing
\* error.
C29_EmptyListing ==
    \A prefix \in ListPrefixes :
        /\ S3Error_S3ListHandle.kind # S3Error_S3List("list_objects", prefix, SdkErrorMessage).kind
        /\ (\A name \in Names(data) : ~starts_with(name, prefix)) =>
              /\ Sink_list_objects_copy("memory", data, prefix, TRUE) = Ok({})
              /\ Sink_list_objects_copy("s3", data, prefix, TRUE) = Ok({})

\* The names of the Welcome key and of the Initialize key of the Instance.
WelcomeName == InstanceKey_name(instance.naming, InstanceKey_Welcome)
InitializeName ==
    InstanceKey_name(instance.naming,
        InstanceKey_Initialize(
            Uuid_to_string(unwrap_or_default(instance.configuration.instance_id))))

\* The hyphenated nil UUID.
NilUuidString ==
    <<"0", "0", "0", "0", "0", "0", "0", "0", "-", "0", "0", "0", "0", "-",
      "0", "0", "0", "0", "-", "0", "0", "0", "0", "-",
      "0", "0", "0", "0", "0", "0", "0", "0", "0", "0", "0", "0">>

\* C28: after Instance::new returns Ok over an empty backend, for every cache
\* capacity, the Welcome record and the Initialize record (named by the
\* configured instance id, or by the nil UUID when none is configured) are
\* held by the backend and known to the existence index, and get_object for
\* the Welcome key, its requests being answered, returns the record without
\* error.
C28_InstanceBootstrapped ==
    (instance.pc = "ready" /\ instance.before = <<>>) =>
        /\ {WelcomeName, InitializeName} \subseteq Names(data)
        /\ {WelcomeName, InitializeName} \subseteq exists
        /\ Stored(data, WelcomeName, Welcome_default)
        /\ instance.configuration.instance_id = {} =>
              InitializeName =
                  InstanceKey_name(instance.naming, InstanceKey_Initialize(NilUuidString))
        /\ Returned(get_object_copy(Self, WelcomeName, TRUE, TRUE), Some(Welcome_default))

\* C28 witness: Instance::new has returned Ok with no instance id configured
\* and a cache of capacity 1, so that the Welcome record, under a name of
\* its own, has left the cache; nothing else was written.
C28_Witness ==
    /\ instance.pc = "ready"
    /\ instance.before = <<>>
    /\ instance.configuration.instance_id = {}
    /\ cap = 1
    /\ WelcomeName # InitializeName
    /\ WelcomeName \notin Resident(cache)
    /\ Names(data) = {WelcomeName, InitializeName}
    /\ Stored(data, InitializeName, Initialize)

\* The kinds of the errors of the operations on a constructed backend.
RuntimeKinds ==
    {S3Error_Serde(ParserError_Serde(SerdeMessage)).kind,
     S3Error_S3Object("get_object", KeyOne, SdkErrorMessage).kind,
     S3Error_S3Exists("exists", KeyOne, SdkErrorMessage).kind,
     S3Error_S3List("list_objects", <<>>, SdkErrorMessage).kind,
     S3Error_S3ListHandle.kind}

\* What both readings of C30 share: a failure is an EnvConfig error, a kind
\* no operation on a constructed backend returns, and the region of a
\* constructed backend is the value of S3_REGION when it can be read and
\* us-east-1 otherwise.
ConstructionOutcome ==
    LET backend == instance.backend
        region == instance.env.S3_REGION
    IN  /\ ~backend.ok =>
              /\ backend.val.kind = S3Error_EnvConfig(<<>>).kind
              /\ backend.val.kind \notin RuntimeKinds
        /\ backend.ok =>
              backend.val.inner.region =
                  IF region.present /\ region.unicode THEN region.value ELSE "us-east-1"

\* C30, as stated: constructing the remote backend fails with EnvConfig, a
\* kind distinct from every runtime error, exactly when S3_ENDPOINT is
\* absent; an absent S3_REGION is not an error and the region defaults to
\* us-east-1.
C30_EnvConfigWhenAbsent ==
    (sink = "s3" /\ instance.pc # "start") =>
        /\ ~instance.backend.ok <=> ~instance.env.S3_ENDPOINT.present
        /\ ConstructionOutcome

\* C30, amended: constructing the remote backend fails with EnvConfig exactly
\* when S3_ENDPOINT cannot be read, that is when it is absent or when its
\* value is not valid Unicode; an S3_REGION that cannot be read is not an
\* error and the region defaults to us-east-1.
C30_EnvConfigWhenUnreadable ==
    (sink = "s3" /\ instance.pc # "start") =>
        /\ ~instance.backend.ok <=>
              ~(instance.env.S3_ENDPOINT.present /\ instance.env.S3_ENDPOINT.unicode)
        /\ ConstructionOutcome

\* C30 witness: S3::new has failed with EnvConfig on an absent S3_ENDPOINT.
C30_Witness ==
    /\ sink = "s3"
    /\ instance.pc = "failed"
    /\ ~instance.env.S3_ENDPOINT.present
    /\ instance.backend = Err(S3Error_EnvConfig(<<"S3_ENDPOINT", "environment variable not found">>))

\* The innermost error of an error that wraps others.
RECURSIVE Innermost(_)
Innermost(error) == IF "source" \in DOMAIN error THEN Innermost(error.source) ELSE error

\* The error names an operation and the key or prefix given.
CarriesContext(error, name) ==
    LET inner == Innermost(error)
    IN  /\ "operation" \in DOMAIN inner
        /\ \/ "key" \in DOMAIN inner /\ inner.key = name
           \/ "prefix" \in DOMAIN inner /\ inner.prefix = name

\* The result is Ok, or an error that names an operation and the key.
OkOrContext(res, name) == ~res.ok => CarriesContext(res.val, name)

\* C31: every error a backend, Cache or parser operation returns carries the
\* name of the failed operation and the key (or prefix) it concerned,
\* serialization errors and malformed-listing errors included.
C31_ErrorsCarryContext ==
    /\ \A key \in Keys :
          /\ \A tr \in Transport, tw \in Transport :
                OkOrContext(CacheGetObject(Self, key, tr, tw).res, key)
          /\ \A tw \in Transport :
                /\ \A value \in Values :
                      /\ OkOrContext(CachePutObject(Self, key, value, tw).res, key)
                      /\ OkOrContext(CachePutObjectIfNotExists(Self, key, value, tw).res, key)
                      /\ OkOrContext(Sink_put_object_copy(sink, data, key, value, tw).res, key)
                /\ \A bytes \in BytesInputs :
                      OkOrContext(CachePutBytes(Self, key, bytes, tw).res, key)
          /\ \A t \in Transport :
                /\ OkOrContext(Sink_exists_copy(sink, data, key, t), key)
                /\ OkOrContext(Sink_get_object_copy(sink, data, key, t), key)
    /\ \A prefix \in Prefixes, t \in Transport :
          OkOrContext(Sink_list_objects_copy(sink, data, prefix, t), prefix)

\* The values the round trip is checked on: numbers of one to three digits.
RoundTripValues == {IntV(n) : n \in 0..MaxRoundTrip}

\* deserialize(serialize(v)) = v for the Json parser and for the Rkyv parser.
RoundTripHolds ==
    \A value \in RoundTripValues :
        /\ serialize_value(value).ok
        /\ deserialize_value(serialize_value(value).val) = Ok(value)
        /\ Rkyv_serialize_value(value).ok
        /\ Rkyv_deserialize_value(Rkyv_serialize_value(value).val) = Ok(value)

C33_NoRevert ==
    (/\ call.reader.pc = "done"
     /\ call.writer.pc = "done"
     /\ call.reader.res.ok
     /\ call.writer.res.ok) => Stored(data, call.key, ShareValue)

\* The call wrote the value: it returned true, sent a write to the backend
\* and the backend holds the value under the key afterwards.
Wrote(out, key, value) ==
    /\ Returned(out, TRUE)
    /\ IssuesWrite(out)
    /\ Stored(out.L.data, key, value)
    /\ key \in out.L.exists

\* C34: put_object_if_not_exists decides on the local index only: on a Cache
\* whose index does not contain k it performs the write and returns true
\* even when the backend already holds an object under k, replacing that
\* object; in particular Instance::new over an already initialised backend
\* rewrites the Welcome and Initialize records.
C34_IndexOnlyDecision ==
    /\ \A key \in Names(data) \ exists, value \in IntValues :
          /\ Wrote(Cache_put_object_if_not_exists(Self, key, value, TRUE), key, value)
          /\ Wrote(Cache_put_object_if_not_exists_copy(Self, key, value, TRUE), key, value)
    /\ (instance.pc = "new" /\ instance.before # <<>>) =>
          Wrote(Instance_welcome(Self, instance.naming, TRUE), WelcomeName, Welcome_default)
    /\ (instance.pc = "welcome" /\ instance.before # <<>> /\ InitializeName # WelcomeName) =>
          Wrote(Instance_initialize(Self, instance.naming, instance.configuration, TRUE),
                InitializeName, Initialize)
    /\ (instance.pc = "ready" /\ instance.before # <<>>) =>
          /\ {WelcomeName, InitializeName} \subseteq Names(instance.before)
          /\ Stored(data, WelcomeName, Welcome_default)
          /\ data[WelcomeName] # instance.before[WelcomeName]

\* C34 witness: Instance::new has returned Ok over a backend that held both
\* records, under two names, and the Welcome record is no longer the one the
\* backend held before.
C34_Witness ==
    /\ instance.pc = "ready"
    /\ WelcomeName # InitializeName
    /\ {WelcomeName, InitializeName} \subseteq Names(instance.before)
    /\ instance.before[WelcomeName] # data[WelcomeName]
    /\ Stored(data, WelcomeName, Welcome_default)
    /\ Stored(data, InitializeName, Initialize)
    /\ Names(data) = Names(instance.before)

\* C35: every name resident in the bounded cache is in the existence index,
\* in every reachable state, and the existence index never loses a name: once
\* exists(k) has returned true it returns true for the rest of the life of
\* the Cache.
C35_IndexCoversCacheAndGrows ==
    /\ [](Resident(cache) \subseteq exists)
    /\ [][/\ exists \subseteq exists'
           /\ \A key \in Keys :
                 Returned(CacheExists(Self, key), TRUE) =>
                     Returned(CacheExists([exists |-> exists', cache |-> cache',
                                           data |-> data'], key), TRUE)]_vars

\* C35 witness: the index holds a name whose payload has been evicted, next
\* to the names that are resident in a full cache.
C35_Witness ==
    /\ Len(cache) = cap
    /\ Resident(cache) # {}
    /\ Resident(cache) \subseteq exists
    /\ \E key \in exists \ Resident(cache) : Returned(CacheExists(Self, key), TRUE)

NewValues == Values \cup {IntV(MaxVal + 1)}

\* C37: Instance::put_object is write-once: when the index of the cache
\* already contains the key it returns Ok and leaves the stored value in the
\* backend and in the cache unchanged, discarding the new value.
C37_InstancePutObjectWriteOnce ==
    instance.pc = "ready" =>
        \A key \in exists, value \in NewValues, tw \in Transport :
            Instance_put_object(Self, key, value, tw)
                = [L |-> Self, res |-> Ok(Unit), calls |-> <<>>]

\* C37 witness: the Instance holds a name in its index, in its cache and on
\* the backend with one value, and put_object of another value changes
\* nothing.
C37_Witness ==
    /\ instance.pc = "ready"
    /\ \E key \in (exists \cap Resident(cache)) \ {WelcomeName, InitializeName} :
          /\ Stored(data, key, IntV(MaxVal))
          /\ Payload(cache, key) = data[key]
          /\ Instance_put_object(Self, key, IntV(MaxVal + 1), TRUE).L = Self

\* C38: the backends disagree on zero-length payloads: after
\* put_bytes(k, empty) the remote backend's exists(k) returns true while its
\* get_object(k) returns None, whereas the in-process backend's get_object(k)
\* hands the empty payload to the parser and returns the parser's result, an
\* error for JSON, rather than None.
C38_ZeroLengthPayloads ==
    \A key \in Keys :
        LET remote == Sink_put_bytes_copy("s3", data, key, <<>>, TRUE)
            local == Sink_put_bytes_copy("memory", data, key, <<>>, TRUE)
        IN  /\ remote.res.ok
            /\ Sink_exists_copy("s3", remote.data, key, TRUE) = Ok(TRUE)
            /\ Sink_get_object_copy("s3", remote.data, key, TRUE) = Ok(None)
            /\ local.res.ok
            /\ Sink_exists_copy("memory", local.data, key, TRUE) = Ok(TRUE)
            /\ ~deserialize_value(<<>>).ok
            /\ Sink_get_object_copy("memory", local.data, key, TRUE)
                  = Err(MemoryError_Serde(deserialize_value(<<>>).val))

\* C38 witness: put_bytes has stored an empty payload; read from the remote
\* backend the name exists and has no object, read from the in-process
\* backend it is a parser error.
C38_Witness ==
    \E key \in written \cap Names(data) :
        /\ data[key] = <<>>
        /\ Sink_exists_copy(sink, data, key, TRUE) = Ok(TRUE)
        /\ Sink_get_object_copy("s3", data, key, TRUE) = Ok(None)
        /\ ~Sink_get_object_copy("memory", data, key, TRUE).ok

\* The UUID the environment variable holds, as a set of at most one.
EnvInstanceId ==
    LET value == instance.env.NEGENTROPY_INSTANCE_ID
    IN  IF value.present /\ value.unicode /\ Uuid_parse_str(value.value).ok
        THEN {Uuid_parse_str(value.value).val} ELSE {}

\* C39: Configuration::load keeps only the instance id of the environment:
\* after load (file step, then environment step) instance_id is Some exactly
\* when the environment variable holds a valid UUID, that UUID; an
\* instance_id taken from the file or present beforehand never survives the
\* environment step, which replaces it with None when the variable is unset
\* or cannot be parsed.
C39_LoadKeepsEnvironmentOnly ==
    /\ \A uuid \in Uuids : Uuid_parse_str(Uuid_to_string(uuid)) = Ok(uuid)
    /\ instance.pc = "loaded" =>
          /\ instance.result = Ok(instance.configuration)
          /\ instance.configuration.instance_id = EnvInstanceId
          /\ EnvInstanceId = {} => instance.configuration.instance_id = {}

\* C39 witness: load has returned with the file read and holding an id, the
\* Configuration holding another beforehand and the variable set to a
\* string that is no UUID: no id is left.
C39_Witness ==
    /\ instance.pc = "loaded"
    /\ instance.project_dirs
    /\ instance.file.ok /\ instance.file.val.toml /\ instance.file.val.instance_id = {Uuid_other}
    /\ instance.before.instance_id = {Uuid_nil}
    /\ instance.env.NEGENTROPY_INSTANCE_ID.present
    /\ instance.env.NEGENTROPY_INSTANCE_ID.unicode
    /\ instance.configuration.instance_id = {}
====
